---- MODULE Spec2Model ----
(***************************************************************************)
(* Model of the Riemann flux reproducer                                    *)
(*   src/kernels/pele/pelec_repro2_dodecane_lu.cpp                         *)
(* (riemann, pc_cmpflx_passive, pc_cmpflx, pc_cmpflx_launch and the host   *)
(* code that feeds them).                                                  *)
(*                                                                         *)
(* Numbers.  A C++ double is modelled as an exact decimal-scaled rational  *)
(* <<n, d, e>> standing for (n/d) * 10^e, kept in the canonical form       *)
(* gcd(n,d) = 1, d > 0, 1 <= |n|/d < 10 (zero is <<0,1,0>>).  The three    *)
(* non-finite doubles are <<1,0,0>> (+inf), <<-1,0,0>> (-inf) and          *)
(* <<0,0,0>> (NaN), with the IEEE-754 rules for them.  Arithmetic on       *)
(* finite values is exact (no rounding), except that                       *)
(*   - an addend smaller than the other by AbsorbGap or more decimal       *)
(*     orders of magnitude is absorbed (a 53-bit significand absorbs from  *)
(*     17 orders on; the model's integers carry 9 digits);                 *)
(*   - std::sqrt is rounded down to a grid of SqrtGrid steps per unit of   *)
(*     the significand.                                                    *)
(* The sign of zero and the exponent range of a double are not modelled.   *)
(***************************************************************************)
EXTENDS Integers, Sequences, FiniteSets, TLC

(***************************************************************************)
(* Bounds of the model.                                                    *)
(***************************************************************************)
\* number of species carried by the model (NUM_SPECIES of the chemistry header)
NUM_SPECIES == 2

(***************************************************************************)
(* Decimal-scaled rational arithmetic.                                     *)
(***************************************************************************)
\* orders of magnitude from which the smaller addend of a sum is absorbed
AbsorbGap == 8
\* std::sqrt is rounded down to a multiple of 1/SqrtGrid of the significand
SqrtGrid == 16

\* the largest integer of the model's arithmetic
MaxInt == (2^30 - 1) + 2^30

Abs(x) == IF x < 0 THEN -x ELSE x
Sgn(x) == IF x < 0 THEN -1 ELSE IF x > 0 THEN 1 ELSE 0

RECURSIVE Gcd(_, _)
Gcd(a, b) == IF b = 0 THEN a ELSE Gcd(b, a % b)

RECURSIVE Pow10(_)
Pow10(k) == IF k = 0 THEN 1 ELSE 10 * Pow10(k - 1)

\* a * b and a + b stay within the model's integers
MulFits(a, b) == a = 0 \/ b = 0 \/ Abs(a) <= MaxInt \div Abs(b)
AddFits(a, b) == Sgn(a) # Sgn(b) \/ Abs(a) <= MaxInt - Abs(b)

Zero == <<0, 1, 0>>
PInf == <<1, 0, 0>>
NInf == <<-1, 0, 0>>
NaN  == <<0, 0, 0>>
\* a finite value whose exact significand does not fit the model's integers;
\* it behaves as a NaN and marks the computation as not representable
Unrep == <<0, 0, 1>>

IsNaN(a)    == a[2] = 0 /\ a[1] = 0
IsInf(a)    == a[2] = 0 /\ a[1] # 0
IsFinite(a) == a[2] > 0
IsZero(a)   == a[2] > 0 /\ a[1] = 0
IsUnrep(a)  == a = Unrep
\* sign of a value that is not NaN
Sign(a) == Sgn(a[1])

\* n >= 0, d > 0: bring n/d into [1,10) by moving powers of ten into e
RECURSIVE Scale(_, _, _)
Scale(n, d, e) ==
    IF n \div 10 >= d
    THEN IF n % 10 = 0 THEN Scale(n \div 10, d, e + 1)
         ELSE IF MulFits(d, 10) THEN Scale(n, d * 10, e + 1) ELSE Unrep
    ELSE IF n < d
         THEN IF d % 10 = 0 THEN Scale(n, d \div 10, e - 1)
              ELSE IF MulFits(n, 10) THEN Scale(n * 10, d, e - 1) ELSE Unrep
         ELSE <<n, d, e>>

\* (n/d) * 10^e with the common factor g of n and d taken out
Reduced(n, d, e, g) == <<n \div g, d \div g, e>>
\* s in lowest terms, with the sign sg
Lowest(sg, s) ==
    IF s = Unrep THEN Unrep ELSE Reduced(sg * s[1], s[2], s[3], Gcd(s[1], s[2]))
Scaled(s) == Scale(s[1], s[2], s[3])

\* the canonical form of (n/d) * 10^e, d > 0
Norm(n, d, e) ==
    IF n = 0 THEN Zero
    ELSE Lowest(Sgn(n), Scaled(Reduced(Abs(n), d, e, Gcd(Abs(n), d))))

\* a double literal m * 10^e written with an integer significand
Lit(m, e) == Norm(m, 1, e)
\* the literal n/d
Rat(n, d) == Norm(n, d, 0)

Neg(a) == <<-a[1], a[2], a[3]>>
FAbs(a) == <<Abs(a[1]), a[2], a[3]>>

\* (n1/d1) * (n2/d2) * 10^e
MulParts(n1, d1, n2, d2, e) ==
    IF MulFits(n1, n2) /\ MulFits(d1, d2) THEN Norm(n1 * n2, d1 * d2, e) ELSE Unrep
\* a * b for finite nonzero values, g1 and g2 the factors a's numerator shares
\* with b's denominator and b's numerator with a's denominator
MulCross(a, b, g1, g2) ==
    MulParts(a[1] \div g1, a[2] \div g2, b[1] \div g2, b[2] \div g1, a[3] + b[3])

Mul(a, b) ==
    IF IsNaN(a) THEN a
    ELSE IF IsNaN(b) THEN b
    ELSE IF IsInf(a) \/ IsInf(b)
         THEN IF IsZero(a) \/ IsZero(b) THEN NaN
              ELSE IF Sign(a) * Sign(b) > 0 THEN PInf ELSE NInf
    ELSE IF a[1] = 0 \/ b[1] = 0 THEN Zero
    ELSE MulCross(a, b, Gcd(Abs(a[1]), b[2]), Gcd(Abs(b[1]), a[2]))

\* 1 / b for a finite nonzero b (not in canonical form)
Recip(b) == <<Sgn(b[1]) * b[2], Abs(b[1]), -b[3]>>

Div(a, b) ==
    IF IsNaN(a) THEN a
    ELSE IF IsNaN(b) THEN b
    ELSE IF IsInf(b) THEN (IF IsInf(a) THEN NaN ELSE Zero)
    ELSE IF IsZero(b)
         THEN IF IsZero(a) THEN NaN ELSE IF Sign(a) > 0 THEN PInf ELSE NInf
    ELSE IF IsInf(a) THEN (IF Sign(a) * Sign(b) > 0 THEN PInf ELSE NInf)
    ELSE Mul(a, Recip(b))

\* (n * pp / h2 + lo[1] / l2) / c * 10^lo[3], where lo[2] = l2 * c
AddCommon(n, pp, h2, lo, l2) ==
    IF /\ MulFits(n, pp)
       /\ MulFits(n * pp, l2)
       /\ MulFits(lo[1], h2)
       /\ AddFits(n * pp * l2, lo[1] * h2)
       /\ MulFits(h2, lo[2])
    THEN Norm(n * pp * l2 + lo[1] * h2, h2 * lo[2], lo[3])
    ELSE Unrep
\* (n * pp / d1 + lo[1] / lo[2]) * 10^lo[3], g the common factor of d1 and lo[2]
AddFrac(n, pp, d1, lo, g) == AddCommon(n, pp, d1 \div g, lo, lo[2] \div g)
\* (hi[1] * p / hi[2] + lo[1] / lo[2]) * 10^lo[3], gp the common factor of p and hi[2]
AddShifted(hi, lo, p, gp) ==
    AddFrac(hi[1], p \div gp, hi[2] \div gp, lo, Gcd(hi[2] \div gp, lo[2]))
\* hi + lo for finite nonzero values with hi[3] >= lo[3]: below AbsorbGap
\* decimal orders apart the sum is exact, otherwise lo is absorbed
AddAligned(hi, lo) ==
    IF hi[3] - lo[3] >= AbsorbGap THEN hi
    ELSE AddShifted(hi, lo, Pow10(hi[3] - lo[3]), Gcd(Pow10(hi[3] - lo[3]), hi[2]))

Add(a, b) ==
    IF IsNaN(a) THEN a
    ELSE IF IsNaN(b) THEN b
    ELSE IF IsInf(a) THEN (IF IsInf(b) /\ Sign(a) # Sign(b) THEN NaN ELSE a)
    ELSE IF IsInf(b) THEN b
    ELSE IF a[1] = 0 THEN b
    ELSE IF b[1] = 0 THEN a
    ELSE IF a[3] >= b[3] THEN AddAligned(a, b) ELSE AddAligned(b, a)

Sub(a, b) == Add(a, Neg(b))

\* a/b < c/d for naturals a, c and positive b, d (by continued fractions)
RECURSIVE FracLess(_, _, _, _)
FracLess(a, b, c, d) ==
    IF a \div b # c \div d THEN a \div b < c \div d
    ELSE IF c % d = 0 THEN FALSE
    ELSE IF a % b = 0 THEN TRUE
    ELSE FracLess(d, c % d, b, a % b)

\* |a| < |b| for finite nonzero values
AbsLess(a, b) ==
    IF a[3] # b[3] THEN a[3] < b[3] ELSE FracLess(Abs(a[1]), a[2], Abs(b[1]), b[2])

\* a < b on doubles (false when either is NaN)
Less(a, b) ==
    IF IsNaN(a) \/ IsNaN(b) THEN FALSE
    ELSE IF IsInf(a) \/ IsInf(b)
         THEN (IF IsInf(a) THEN 2 * Sign(a) ELSE 0) < (IF IsInf(b) THEN 2 * Sign(b) ELSE 0)
    ELSE IF Sign(a) # Sign(b) THEN Sign(a) < Sign(b)
    ELSE IF Sign(a) = 0 THEN FALSE
    ELSE IF Sign(a) > 0 THEN AbsLess(a, b) ELSE AbsLess(b, a)

Greater(a, b) == Less(b, a)
\* a == b on doubles (false when either is NaN)
FEq(a, b) == ~IsNaN(a) /\ ~IsNaN(b) /\ a = b
LessEq(a, b) == Less(a, b) \/ FEq(a, b)
GreaterEq(a, b) == LessEq(b, a)

\* std::max(a, b) is (a < b) ? b : a; std::min(a, b) is (b < a) ? b : a
Max(a, b) == IF IsUnrep(a) \/ IsUnrep(b) THEN Unrep ELSE IF Less(a, b) THEN b ELSE a
Min(a, b) == IF IsUnrep(a) \/ IsUnrep(b) THEN Unrep ELSE IF Less(b, a) THEN b ELSE a

\* std::copysign(1.0, x) for an x that is not a negative zero
CopySign1(x) == IF IsNaN(x) \/ Sign(x) >= 0 THEN Lit(1, 0) ELSE Lit(-1, 0)

\* the largest q with q*q <= t, by Newton's iteration from above
RECURSIVE Newton(_, _)
Newton(t, x) ==
    IF (x + t \div x) \div 2 >= x THEN x ELSE Newton(t, (x + t \div x) \div 2)
ISqrt(t) == IF t = 0 THEN 0 ELSE Newton(t, IF t > 46340 THEN 46341 ELSE t)

\* sqrt((m/d) * 10^e), e even, n/dd the fraction m/d in lowest terms and
\* sn, sd the integer roots of n and dd
SqrtRoots(m, d, e, n, dd, sn, sd) ==
    IF sn * sn = n /\ sd * sd = dd
    THEN Norm(sn, sd, e \div 2)
    ELSE Norm(ISqrt((m * SqrtGrid * SqrtGrid) \div d), SqrtGrid, e \div 2)
SqrtReduced(m, d, e, g) ==
    SqrtRoots(m, d, e, m \div g, d \div g, ISqrt(m \div g), ISqrt(d \div g))

\* std::sqrt: exact on the square of a rational, otherwise rounded down to the grid
Sqrt(a) ==
    IF IsNaN(a) THEN a
    ELSE IF IsInf(a) THEN (IF Sign(a) > 0 THEN PInf ELSE NaN)
    ELSE IF a[1] < 0 THEN NaN
    ELSE IF a[1] = 0 THEN Zero
    ELSE IF ~MulFits(a[1], 10 * SqrtGrid * SqrtGrid) THEN Unrep
    ELSE IF a[3] % 2 # 0
         THEN SqrtReduced(10 * a[1], a[2], a[3] - 1, Gcd(10 * a[1], a[2]))
         ELSE SqrtReduced(a[1], a[2], a[3], Gcd(a[1], a[2]))

(***************************************************************************)
(* Program constants.                                                      *)
(***************************************************************************)
URHO == 0
UMX == 1
UMY == 2
UMZ == 3
UEDEN == 4
UEINT == 5
UTEMP == 6
UFA == 7
QRHO == 0
QU == 1
QV == 2
QW == 3
QGAME == 4
QPRES == 5
QREINT == 6
QTEMP == 7
QFA == 8
QC == 1
GDRHO == 0
GDU == 1
GDV == 2
GDW == 3
GDPRES == 4
GDGAME == 5
NUM_ADV == 0
UFS == UFA + NUM_ADV
QFS == QFA + NUM_ADV

Species == 0..(NUM_SPECIES - 1)

Half == Lit(5, -1)
One  == Lit(1, 0)

\* Constants::gamma and Constants::RU (8.31446261815324e7, kept to four digits)
gamma == Rat(7, 5)
RU == Lit(8314, 4)
\* constants::smallu(), small_num(), very_small_num() = DBL_EPSILON * 1e-100
smallu == Lit(1, -12)
small_num == Lit(1, -8)
very_small_num == Lit(222, -118)
\* std::numeric_limits<double>::min()
wsmall == Lit(2225, -311)

\* the loop  acc = 0; for (n = 0; n < NUM_SPECIES; n++) acc += f[n];
RECURSIVE SumUpTo(_, _)
SumUpTo(f, n) == IF n = 0 THEN Zero ELSE Add(SumUpTo(f, n - 1), f[n - 1])
SumSpecies(f) == SumUpTo(f, NUM_SPECIES)

(***************************************************************************)
(* Thermodynamic oracle of the chemistry header (not part of the sources): *)
(* a constant-gamma ideal gas mixture.                                     *)
(***************************************************************************)
\* molecular weight of species k
mw(k) == Lit(28 + 4 * k, 0)
\* CKMMWY: mean molecular weight from mass fractions
CKMMWY(Y) == Div(One, SumSpecies([k \in Species |-> Div(Y[k], mw(k))]))
\* CKCVMS: species specific heats at constant volume, RU / (mw (gamma - 1))
CKCVMS(T) == [k \in Species |-> Div(RU, Mul(mw(k), Sub(gamma, One)))]
\* CKUMS: species internal energies, cv * T
CKUMS(T) == [k \in Species |-> Mul(CKCVMS(T)[k], T)]

(***************************************************************************)
(* EOS adapters.                                                           *)
(***************************************************************************)
\* the sound speed from the mean molecular weight and the mixture Cv
RPY2Cs_G(R, P, wbar, Cv) ==
    Sqrt(Div(Mul(Div(Add(Mul(wbar, Cv), RU), Mul(wbar, Cv)), P), R))
RPY2Cs_Cv(R, P, Y, wbar) ==
    RPY2Cs_G(R, P, wbar,
             SumSpecies([i \in Species |->
                            Mul(Y[i], CKCVMS(Div(Mul(P, wbar), Mul(R, RU)))[i])]))
RPY2Cs(R, P, Y) == RPY2Cs_Cv(R, P, Y, CKMMWY(Y))

RYP2E_T(R, Y, P, wbar) ==
    SumSpecies([n \in Species |-> Mul(Y[n], CKUMS(Div(Mul(P, wbar), Mul(R, RU)))[n])])
RYP2E(R, Y, P) == RYP2E_T(R, Y, P, CKMMWY(Y))

(***************************************************************************)
(* pc_cmpflx_passive: upwinding of a passively advected quantity.          *)
(***************************************************************************)
\* an upwinding that takes the far side
pc_cmpflx_passive_downwind(ustar, flxrho, ql, qr) ==
    IF Greater(ustar, Zero) THEN Mul(flxrho, qr)
    ELSE IF Less(ustar, Zero) THEN Mul(flxrho, ql)
    ELSE Mul(Mul(flxrho, Half), Add(ql, qr))

\* an upwinding whose centred case adds the two sides without the half
pc_cmpflx_passive_unhalved(ustar, flxrho, ql, qr) ==
    IF Greater(ustar, Zero) THEN Mul(flxrho, ql)
    ELSE IF Less(ustar, Zero) THEN Mul(flxrho, qr)
    ELSE Mul(flxrho, Add(ql, qr))

\* flx = (ustar > 0) ? flxrho * ql : (ustar < 0) ? flxrho * qr
\*                                 : flxrho * 0.5 * (ql + qr)
pc_cmpflx_passive(ustar, flxrho, ql, qr) ==
    IF Greater(ustar, Zero) THEN Mul(flxrho, ql)
    ELSE IF Less(ustar, Zero) THEN Mul(flxrho, qr)
    ELSE Mul(Mul(flxrho, Half), Add(ql, qr))

(***************************************************************************)
(* Steps of riemann that the properties below single out.                  *)
(***************************************************************************)
\* a filter with an absolute threshold
sonic_mask_absolute(ustar, ul, ur) ==
    Less(FAbs(ustar), smallu) \/ FEq(ustar, Zero)

\* the sonic filter: |ustar| < smallu * 0.5 * (|ul| + |ur|) || ustar == 0
sonic_mask(ustar, ul, ur) ==
    Less(FAbs(ustar), Mul(Mul(smallu, Half), Add(FAbs(ul), FAbs(ur))))
    \/ FEq(ustar, Zero)

\* the star-state partial density without its floor
star_species_unclamped(rspo_n, drho, spon) == Add(rspo_n, Mul(drho, spon))

\* rspstar[n] = max(0, rspo[n] + drho * spon)
star_species(rspo_n, drho, spon) == Max(Zero, Add(rspo_n, Mul(drho, spon)))

\* a normal momentum flux without the pressure term
flux_u_no_pressure(uflx_rho, qint_iu, qint_gdpres) == Mul(uflx_rho, qint_iu)

\* uflx_u = uflx_rho * qint_iu + qint_gdpres
flux_u(uflx_rho, qint_iu, qint_gdpres) == Add(Mul(uflx_rho, qint_iu), qint_gdpres)

\* a total-energy flux with the pressure outside the product
flux_eden_misplaced(qint_iu, rhoetot, qint_gdpres) ==
    Add(Mul(qint_iu, rhoetot), qint_gdpres)

\* uflx_eden = qint_iu * (rhoetot + qint_gdpres)
flux_eden(qint_iu, rhoetot, qint_gdpres) == Mul(qint_iu, Add(rhoetot, qint_gdpres))

(***************************************************************************)
(* riemann: the two-shock approximate Riemann solver.  Its locals and      *)
(* output (reference) parameters are the fields of a record s that each    *)
(* block of statements extends or overwrites; s starts as the inputs.      *)
(***************************************************************************)
\* the inputs of riemann
Face(rl, ul, vl, v2l, pl, spl, rr, ur, vr, v2r, pr, spr, bc, cav) ==
    [rl |-> rl, ul |-> ul, vl |-> vl, v2l |-> v2l, pl |-> pl, spl |-> spl,
     rr |-> rr, ur |-> ur, vr |-> vr, v2r |-> v2r, pr |-> pr, spr |-> spr,
     bc |-> bc, cav |-> cav]

\* cl, cr: the sound speeds of the two input states
riemann_sound_speeds(s) ==
    [cl |-> RPY2Cs(s.rl, s.pl, s.spl), cr |-> RPY2Cs(s.rr, s.pr, s.spr)] @@ s

\* wl, wr
riemann_impedances(s) ==
    [wl |-> Max(wsmall, Mul(s.cl, s.rl)), wr |-> Max(wsmall, Mul(s.cr, s.rr))] @@ s

\* pstar and the first ustar (kept as ustar0)
riemann_star(s) ==
    [pstar |-> Max(wsmall,
                   Div(Add(Add(Mul(s.wr, s.pl), Mul(s.wl, s.pr)),
                           Mul(Mul(s.wl, s.wr), Sub(s.ul, s.ur))),
                       Add(s.wl, s.wr))),
     ustar0 |-> Div(Add(Add(Mul(s.wl, s.ul), Mul(s.wr, s.ur)), Sub(s.pl, s.pr)),
                    Add(s.wl, s.wr))] @@ s

\* the upwind 'o' state and the sonic filter
riemann_o_state(s) ==
    LET mask1 == Greater(s.ustar0, Zero)
        mask2 == sonic_mask(s.ustar0, s.ul, s.ur)
        rspo == [n \in Species |->
                   IF mask2 THEN Mul(Half, Add(Mul(s.rl, s.spl[n]), Mul(s.rr, s.spr[n])))
                   ELSE IF mask1 THEN Mul(s.rl, s.spl[n]) ELSE Mul(s.rr, s.spr[n])]
    IN  [filtered |-> mask2,
         ustar |-> IF mask2 THEN Zero ELSE s.ustar0,
         rspo |-> rspo,
         ro |-> SumSpecies(rspo),
         uo |-> IF mask2 THEN Mul(Half, Add(s.ul, s.ur)) ELSE IF mask1 THEN s.ul ELSE s.ur,
         po |-> IF mask2 THEN Mul(Half, Add(s.pl, s.pr)) ELSE IF mask1 THEN s.pl ELSE s.pr]
        @@ s

\* co: the sound speed of the 'o' state
riemann_o_sound(s) ==
    [co |-> RPY2Cs(s.ro, s.po, [n \in Species |-> Div(s.rspo[n], s.ro)])] @@ s

\* drho and the star-state partial densities
riemann_star_density(s) ==
    LET drho == Div(Sub(s.pstar, s.po), Mul(s.co, s.co))
        rspstar == [n \in Species |->
                      star_species(s.rspo[n], drho, Div(s.rspo[n], s.ro))]
    IN  [drho |-> drho, rspstar |-> rspstar, rstar |-> SumSpecies(rspstar)] @@ s

\* cstar: the sound speed of the star state
riemann_star_sound(s) ==
    [cstar |-> RPY2Cs(s.rstar, s.pstar, [n \in Species |-> Div(s.rspstar[n], s.rstar)])]
    @@ s

\* wave speeds left apart whatever the pressures
riemann_wave_speeds_uncollapsed(s) ==
    LET sgnm == CopySign1(s.ustar)
    IN  [spout |-> Sub(s.co, Mul(sgnm, s.uo)),
         spin |-> Sub(s.cstar, Mul(sgnm, s.ustar))] @@ s

\* sgnm, spout, spin, ushock
riemann_wave_speeds(s) ==
    LET sgnm == CopySign1(s.ustar)
        spout == Sub(s.co, Mul(sgnm, s.uo))
        spin == Sub(s.cstar, Mul(sgnm, s.ustar))
        ushock == Mul(Half, Add(spin, spout))
        mask == Less(s.pstar, s.po)
    IN  [spout |-> IF mask THEN spout ELSE ushock,
         spin |-> IF mask THEN spin ELSE ushock] @@ s

\* a fraction left as computed
riemann_fan_fraction_unclamped(s) ==
    LET scr == IF Less(FAbs(Sub(s.spout, s.spin)), very_small_num)
               THEN Mul(small_num, s.cav)
               ELSE Sub(s.spout, s.spin)
    IN  [scr |-> scr,
         frac |-> Mul(Add(One, Div(Add(s.spout, s.spin), scr)), Half)] @@ s

\* scr and frac
riemann_fan_fraction(s) ==
    LET scr == IF Less(FAbs(Sub(s.spout, s.spin)), very_small_num)
               THEN Mul(small_num, s.cav)
               ELSE Sub(s.spout, s.spin)
    IN  [scr |-> scr,
         frac |-> Max(Zero, Min(One, Mul(Add(One, Div(Add(s.spout, s.spin), scr)), Half)))]
        @@ s

\* the two overrides applied in the other order: the 'o' state wins
riemann_interface_o_wins(s) ==
    LET out == Less(s.spout, Zero)
        in == GreaterEq(s.spin, Zero)
        rspgd == [n \in Species |->
                    IF out THEN s.rspo[n]
                    ELSE IF in THEN s.rspstar[n]
                    ELSE Add(Mul(s.frac, s.rspstar[n]), Mul(Sub(One, s.frac), s.rspo[n]))]
    IN  [qint_iv1 |-> IF FEq(s.ustar, Zero) THEN Mul(Half, Add(s.vl, s.vr))
                      ELSE IF Greater(s.ustar, Zero) THEN s.vl ELSE s.vr,
         qint_iv2 |-> IF FEq(s.ustar, Zero) THEN Mul(Half, Add(s.v2l, s.v2r))
                      ELSE IF Greater(s.ustar, Zero) THEN s.v2l ELSE s.v2r,
         rspgd |-> rspgd,
         rgd |-> SumSpecies(rspgd),
         qint_iu |-> IF out THEN s.uo
                     ELSE IF in THEN s.ustar
                     ELSE Add(Mul(s.frac, s.ustar), Mul(Sub(One, s.frac), s.uo)),
         qint_gdpres |-> IF out THEN s.po
                         ELSE IF in THEN s.pstar
                         ELSE Add(Mul(s.frac, s.pstar), Mul(Sub(One, s.frac), s.po))] @@ s

\* the transverse velocities, the interior of the fan and its two overrides
riemann_interface(s) ==
    LET out == Less(s.spout, Zero)
        in == GreaterEq(s.spin, Zero)
        rspgd == [n \in Species |->
                    IF in THEN s.rspstar[n]
                    ELSE IF out THEN s.rspo[n]
                    ELSE Add(Mul(s.frac, s.rspstar[n]), Mul(Sub(One, s.frac), s.rspo[n]))]
    IN  [qint_iv1 |-> IF FEq(s.ustar, Zero) THEN Mul(Half, Add(s.vl, s.vr))
                      ELSE IF Greater(s.ustar, Zero) THEN s.vl ELSE s.vr,
         qint_iv2 |-> IF FEq(s.ustar, Zero) THEN Mul(Half, Add(s.v2l, s.v2r))
                      ELSE IF Greater(s.ustar, Zero) THEN s.v2l ELSE s.v2r,
         rspgd |-> rspgd,
         rgd |-> SumSpecies(rspgd),
         qint_iu |-> IF in THEN s.ustar
                     ELSE IF out THEN s.uo
                     ELSE Add(Mul(s.frac, s.ustar), Mul(Sub(One, s.frac), s.uo)),
         qint_gdpres |-> IF in THEN s.pstar
                         ELSE IF out THEN s.po
                         ELSE Add(Mul(s.frac, s.pstar), Mul(Sub(One, s.frac), s.po))] @@ s

\* regd = gdnv_state_rho * gdnv_state_e
riemann_interface_energy(s) ==
    [regd |-> Mul(s.rgd, RYP2E(s.rgd, [n \in Species |-> Div(s.rspgd[n], s.rgd)],
                                s.qint_gdpres))] @@ s

\* an interface velocity left without its sign
riemann_boundary_unsigned(s) ==
    [qint_gdgame |-> Add(Div(s.qint_gdpres, s.regd), One)] @@ s

\* qint_gdgame, and qint_iu = bc_test_val * qint_iu
riemann_boundary(s) ==
    [qint_gdgame |-> Add(Div(s.qint_gdpres, s.regd), One),
     qint_iu |-> Mul(Lit(s.bc, 0), s.qint_iu)] @@ s

\* the fluxes
riemann_fluxes(s) ==
    LET uflx_rho == Mul(s.rgd, s.qint_iu)
        rhoetot == Add(s.regd,
                       Mul(Mul(Half, s.rgd),
                           Add(Add(Mul(s.qint_iu, s.qint_iu), Mul(s.qint_iv1, s.qint_iv1)),
                               Mul(s.qint_iv2, s.qint_iv2))))
    IN  [uflx_rho |-> uflx_rho,
         uflx_rhoY |-> [n \in Species |-> Mul(s.rspgd[n], s.qint_iu)],
         uflx_u |-> flux_u(uflx_rho, s.qint_iu, s.qint_gdpres),
         uflx_v |-> Mul(uflx_rho, s.qint_iv1),
         uflx_w |-> Mul(uflx_rho, s.qint_iv2),
         uflx_eden |-> flux_eden(s.qint_iu, rhoetot, s.qint_gdpres),
         uflx_eint |-> Mul(s.qint_iu, s.regd)] @@ s

\* the statements F executed on the locals s
Then(s, F(_)) == CHOOSE r \in {F(x) : x \in {s}} : TRUE

riemann(rl, ul, vl, v2l, pl, spl, rr, ur, vr, v2r, pr, spr, bc_test_val, cav) ==
    Then(Then(Then(Then(Then(Then(Then(Then(Then(Then(Then(Then(Then(
        Face(rl, ul, vl, v2l, pl, spl, rr, ur, vr, v2r, pr, spr, bc_test_val, cav),
        riemann_sound_speeds),
        riemann_impedances),
        riemann_star),
        riemann_o_state),
        riemann_o_sound),
        riemann_star_density),
        riemann_star_sound),
        riemann_wave_speeds),
        riemann_fan_fraction),
        riemann_interface),
        riemann_interface_energy),
        riemann_boundary),
        riemann_fluxes)

(***************************************************************************)
(* Face problems given to the solver.                                      *)
(***************************************************************************)
\* mass fractions a, b of the first two species, none of the others
Mix(a, b) == [k \in Species |-> IF k = 0 THEN a ELSE IF k = 1 THEN b ELSE Zero]

\* the same problem seen from the other side of the face
Mirror(f) ==
    Face(f.rr, Neg(f.ur), f.vr, f.v2r, f.pr, f.spr,
         f.rl, Neg(f.ul), f.vl, f.v2l, f.pl, f.spl, f.bc, f.cav)

YA == Mix(Rat(3, 10), Rat(7, 10))
YB == Mix(Rat(8, 10), Rat(2, 10))
YPure == Mix(One, Zero)
\* not a composition: a negative mass fraction
YNeg == Mix(Rat(-1, 10), Rat(11, 10))

Densities  == {Rat(7, 5), Rat(7, 20)}
Pressures  == {Lit(1, 6), Lit(4, 6)}
Velocities == {Zero, Lit(5, 2), Lit(-5, 2), Lit(1, -20)}

GeneralFaces ==
    {Face(rl, ul, Lit(3, 1), Lit(1, 1), pl, YA,
          rr, ur, Lit(-2, 1), Lit(4, 1), pr, YB, 1, Lit(1, 3)) :
        rl \in Densities, ul \in Velocities, pl \in Pressures,
        rr \in Densities, ur \in Velocities, pr \in Pressures}

\* both sides identical and moving, slower than sound, at its speed and faster
TrivialFaces ==
    {Face(r, u, Lit(3, 1), Lit(1, 1), p, Y, r, u, Lit(3, 1), Lit(1, 1), p, Y, 1, cav) :
        r \in {Rat(7, 5), Rat(7, 20)},
        u \in {Lit(5, 2), Lit(-5, 2), Lit(1, 3), Lit(-1, 3), Lit(5, 3), Lit(-5, 3)},
        p \in Pressures, Y \in {YA}, cav \in {Lit(1, 3), Zero}}

\* both sides at rest at one pressure, differing in density and composition
ContactFaces ==
    {Face(rl, Zero, Lit(3, 1), Lit(1, 1), p, Yl, rr, Zero, Lit(3, 1), Lit(1, 1), p, Yr,
          1, Lit(1, 3)) :
        rl \in Densities, rr \in Densities, p \in Pressures,
        Yl \in {YA, YPure}, Yr \in {YA, YB}}

\* a supersonic inflow held by a pressure jump: the star velocity is zero
SupersonicFaces ==
    {Face(Rat(10, 7), Lit(48, 3), v, Lit(1, 1), Lit(2, 6), YPure,
          Rat(10, 7), Zero, v, Lit(1, 1), Lit(98, 6), YPure, 1, Lit(1, 3)) :
        v \in {Lit(3, 1), Zero}}

\* inputs the kernel does not reject: a negative mass fraction
ClampFaces ==
    {Face(rl, u, Lit(3, 1), Lit(1, 1), Lit(1, 6), YNeg,
          Rat(7, 5), u, Lit(-2, 1), Lit(4, 1), pr, YA, 1, Lit(1, 3)) :
        rl \in {Rat(7, 5), Rat(7, 20)}, u \in {Lit(5, 2), Lit(-5, 2)}, pr \in Pressures}

\* two streams closing on each other at low pressure: the star velocity is
\* far below smallu times their speed, and the sonic filter zeroes it
FilteredFaces ==
    {Face(Rat(7, 10), u, Lit(3, 1), Lit(1, 1), Lit(2, -30), Y,
          Rat(7, 5), Neg(u), Lit(-2, 1), Lit(4, 1), Lit(1, -30), Y, 1, Lit(1, 3)) :
        u \in {Lit(5, 2), Lit(-5, 2)}, Y \in {YA, YPure}}

\* fans astride the face: a rarefaction whose star state is supersonic
\* (s_in < 0 <= s_out), and a supersonic stream held by a pressure jump with
\* star velocity zero and P* < P_o (s_out < 0 <= s_in)
FanFaces ==
    {Face(Rat(7, 20), Lit(3, 3), v, v, Lit(4, 6), YPure,
          Rat(7, 20), Lit(3, 3), v, v, Lit(1, 6), YPure, 1, Lit(1, 3)) :
        v \in {Zero, Lit(1, 1)}}
    \cup
    {Face(Rat(63, 5), Rat(75000, 49), Lit(3, 1), Lit(1, 1), Lit(1, 6), YPure,
          Rat(7, 5), Rat(75000, 49), Lit(-2, 1), Lit(4, 1), Lit(16, 6), YPure,
          1, Lit(1, 3))}

\* the uniform flow (rho, u, v1, v2, P) = (1, 500, 0, 0, 1e6)
UniformFaces ==
    {Face(One, Lit(5, 2), Zero, Zero, Lit(1, 6), Y,
          One, Lit(5, 2), Zero, Zero, Lit(1, 6), Y, 1, Lit(1, 3)) : Y \in {YA, YPure}}

CandidateFaces ==
    GeneralFaces \cup TrivialFaces \cup ContactFaces \cup SupersonicFaces \cup ClampFaces
    \cup FilteredFaces \cup FanFaces \cup UniformFaces

RunRiemann(f) ==
    riemann(f.rl, f.ul, f.vl, f.v2l, f.pl, f.spl,
            f.rr, f.ur, f.vr, f.v2r, f.pr, f.spr, f.bc, f.cav)

\* every value the solver compared or returned is one the number model holds
Representable(r) ==
    /\ \A x \in {r.ustar, r.uflx_rho, r.uflx_u, r.uflx_v, r.uflx_w, r.uflx_eden,
                  r.uflx_eint, r.qint_iu, r.qint_iv1, r.qint_iv2, r.qint_gdpres,
                  r.qint_gdgame, r.pstar, r.ustar0, r.uo, r.po, r.drho, r.spout,
                  r.spin, r.scr, r.frac, r.rgd, r.ro, r.co} : ~IsUnrep(x)
    /\ \A n \in Species :
          /\ ~IsUnrep(r.uflx_rhoY[n])
          /\ ~IsUnrep(r.rspo[n])
          /\ ~IsUnrep(r.rspstar[n])
          /\ ~IsUnrep(r.rspgd[n])

\* a face problem the model can solve from both sides
Solvable(f) == Representable(RunRiemann(f)) /\ Representable(RunRiemann(Mirror(f)))

(***************************************************************************)
(* Strided fields and the run metadata.                                    *)
(***************************************************************************)
\* the fields in the order main places them in the pool
ArrayOrder == <<"qmxy", "qpxy", "flxy", "qxy", "qmxz", "qpxz", "flxz", "qxz", "qaux">>
Arrays == {ArrayOrder[x] : x \in 1..Len(ArrayOrder)}
OutputArrays == {"flxy", "qxy", "flxz", "qxz"}

\* the metadata line of a field: what readFillData reads, as written for
\* a box of nx * ny * nz cells whose first cell is (bx, by, bz)
Metadata(nComp, nx, ny, nz, bx, by, bz) ==
    [size |-> nx * ny * nz * nComp, nComp |-> nComp,
     jstride |-> nx, kstride |-> nx * ny, nstride |-> nx * ny * nz,
     beginx |-> bx, beginy |-> by, beginz |-> bz]

\* an offset that takes the plane stride for the row
Offset_swapped(m, i, j, k, n) ==
    (i - m.beginx) + (j - m.beginy) * m.kstride + (k - m.beginz) * m.jstride
    + n * m.nstride

\* an offset counted from index zero, not from the origin of the field
Offset_from_zero(m, i, j, k, n) ==
    i + j * m.jstride + k * m.kstride + n * m.nstride

\* the offset of element (i, j, k, n) of a field
Offset(m, i, j, k, n) ==
    (i - m.beginx) + (j - m.beginy) * m.jstride + (k - m.beginz) * m.kstride
    + n * m.nstride

\* the index tuples of the field the metadata describes
Tuples(m) ==
    {<<i, j, k, n>> :
        i \in m.beginx..(m.beginx + m.jstride - 1),
        j \in m.beginy..(m.beginy + (m.kstride \div m.jstride) - 1),
        k \in m.beginz..(m.beginz + (m.nstride \div m.kstride) - 1),
        n \in 0..(m.nComp - 1)}

\* a decomposition that forgets the planes below when it counts the rows
cell_of_flat_rows(icell, lenx, lenxy, lox, loy, loz) ==
    LET k == icell \div lenxy
        j == icell \div lenx
        i == (icell - k * lenxy) - ((icell - k * lenxy) \div lenx) * lenx
    IN  <<i + lox, j + loy, k + loz>>

\* the cell (i, j, k) of the linear cell number icell
cell_of(icell, lenx, lenxy, lox, loy, loz) ==
    LET k == icell \div lenxy
        j == (icell - k * lenxy) \div lenx
        i == (icell - k * lenxy) - j * lenx
    IN  <<i + lox, j + loy, k + loz>>

\* the cell the interface description gives for icell
spec_cell(icell, lenx, lenxy, lox, loy, loz) ==
    <<lox + (icell % lenx),
      loy + ((icell \div lenx) % (lenxy \div lenx)),
      loz + (icell \div lenxy)>>

\* nthreads of main (256 there), the threads of a block
nthreads == 2
sizeof_double == 8

\* a grid that drops the last, partly filled block
nblocks_floor(ncells) == ncells \div nthreads

\* nblocks = (ncells + nthreads - 1) / nthreads
nblocks(ncells) == (ncells + nthreads - 1) \div nthreads

\* a thread index that leaves out the block
global_index_in_block(blockDim, blockIdx, threadIdx) == threadIdx

\* blockDim.x * blockIdx.x + threadIdx.x
global_index(blockDim, blockIdx, threadIdx) == blockDim * blockIdx + threadIdx

\* the pointers main computes: each field follows the one before it at
\* size * sizeof(double) elements
RECURSIVE PoolBase(_, _)
PoolBase(f, x) ==
    IF x = 1 THEN 0
    ELSE PoolBase(f, x - 1) + f[ArrayOrder[x - 1]].size * sizeof_double

Position(a) == CHOOSE x \in 1..Len(ArrayOrder) : ArrayOrder[x] = a
\* the pool address of element o of field a
Addr(f, a, o) == PoolBase(f, Position(a)) + o

\* tables whose third direction exchanges the two transverse momentum slots
Components_transverse_swapped(dir) ==
    IF dir = 0
    THEN [IU |-> QU, IV |-> QV, IV2 |-> QW, GU |-> GDU, GV |-> GDV, GV2 |-> GDW,
          f_idx |-> <<UMX, UMY, UMZ>>, back |-> <<1, 0, 0>>]
    ELSE IF dir = 1
    THEN [IU |-> QV, IV |-> QU, IV2 |-> QW, GU |-> GDV, GV |-> GDU, GV2 |-> GDW,
          f_idx |-> <<UMY, UMX, UMZ>>, back |-> <<0, 1, 0>>]
    ELSE [IU |-> QW, IV |-> QU, IV2 |-> QV, GU |-> GDW, GV |-> GDU, GV2 |-> GDV,
          f_idx |-> <<UMZ, UMY, UMX>>, back |-> <<0, 0, 1>>]

\* the components pc_cmpflx takes for a direction
Components(dir) ==
    IF dir = 0
    THEN [IU |-> QU, IV |-> QV, IV2 |-> QW, GU |-> GDU, GV |-> GDV, GV2 |-> GDW,
          f_idx |-> <<UMX, UMY, UMZ>>, back |-> <<1, 0, 0>>]
    ELSE IF dir = 1
    THEN [IU |-> QV, IV |-> QU, IV2 |-> QW, GU |-> GDV, GV |-> GDU, GV2 |-> GDW,
          f_idx |-> <<UMY, UMX, UMZ>>, back |-> <<0, 1, 0>>]
    ELSE [IU |-> QW, IV |-> QU, IV2 |-> QV, GU |-> GDW, GV |-> GDU, GV2 |-> GDV,
          f_idx |-> <<UMZ, UMX, UMY>>, back |-> <<0, 0, 1>>]

\* the parameters of its own that pc_cmpflx_launch passes on in both calls
PassedOn ==
    [qa |-> "qaux", dir |-> "dir", bclo |-> "bclo", bchi |-> "bchi",
     domlo |-> "domlo", domhi |-> "domhi"]

\* a second call that was given the flux field of the first
PairArrays_flux_of_first_call(pair) ==
    IF pair = "xy"
    THEN [ql |-> "qmxy", qr |-> "qpxy", flx |-> "flxy", q |-> "qxy"] @@ PassedOn
    ELSE [ql |-> "qmxz", qr |-> "qpxz", flx |-> "flxy", q |-> "qxz"] @@ PassedOn

\* the arguments of the two calls of pc_cmpflx: the fields, and the
\* parameters of the launch passed on
PairArrays(pair) ==
    IF pair = "xy"
    THEN [ql |-> "qmxy", qr |-> "qpxy", flx |-> "flxy", q |-> "qxy"] @@ PassedOn
    ELSE [ql |-> "qmxz", qr |-> "qpxz", flx |-> "flxz", q |-> "qxz"] @@ PassedOn

(***************************************************************************)
(* The data of a launch.                                                   *)
(***************************************************************************)
\* the run metadata main reads
RunMetadata(dir, ncells, lenx, lenxy, lox, loy, loz) ==
    [bclo |-> 0, bchi |-> 0, domlo |-> 0, domhi |-> 7, dir |-> dir,
     ncells |-> ncells, lenx |-> lenx, lenxy |-> lenxy,
     lox |-> lox, loy |-> loy, loz |-> loz]

LaunchRuns ==
    {RunMetadata(0, 2, 2, 2, 0, 0, 0),
     RunMetadata(1, 2, 1, 2, 1, -1, 2),
     RunMetadata(2, 2, 1, 1, 0, 3, 0),
     RunMetadata(0, 1, 1, 1, 0, 0, 0),
     RunMetadata(1, 3, 2, 4, 0, 0, 0)}

Cells(r) == {cell_of(c, r.lenx, r.lenxy, r.lox, r.loy, r.loz) : c \in 0..(r.ncells - 1)}
MaxOf(S) == CHOOSE x \in S : \A y \in S : y <= x

\* the metadata of a field over the cells of the run, widened by g cells
\* below the first cell along the direction of the run
FieldOver(r, nComp, g) ==
    LET back == Components(r.dir).back
        nx == MaxOf({c[1] : c \in Cells(r)}) - r.lox + 1 + g * back[1]
        ny == MaxOf({c[2] : c \in Cells(r)}) - r.loy + 1 + g * back[2]
        nz == MaxOf({c[3] : c \in Cells(r)}) - r.loz + 1 + g * back[3]
    IN  Metadata(nComp, nx, ny, nz,
                 r.lox - g * back[1], r.loy - g * back[2], r.loz - g * back[3])

\* the number of components of each field
NComp(a) ==
    IF a \in {"qmxy", "qpxy", "qmxz", "qpxz"} THEN QFS + NUM_SPECIES
    ELSE IF a \in {"flxy", "flxz"} THEN UFS + NUM_SPECIES
    ELSE IF a \in {"qxy", "qxz"} THEN GDGAME + 1
    ELSE QC + 1

\* the fields of a run; gxz widens the fields of the second call, gqa gives
\* qaux a layer of cells below the block along dir
FieldMetadata(r, gxz, gqa) ==
    [a \in Arrays |->
        FieldOver(r, NComp(a),
                  IF a = "qaux" THEN gqa
                  ELSE IF a \in {"qmxz", "qpxz", "flxz", "qxz"} THEN gxz ELSE 0)]

\* the face problems of the data, one for each cell and call: a flow to
\* the right, a contact at rest, a flow to the left, a supersonic inflow held
\* at the face, and a state with a negative mass fraction
LaunchFaceData ==
    <<Face(Rat(7, 5), Lit(5, 2), Lit(3, 1), Lit(1, 1), Lit(1, 6), YA,
           Rat(7, 20), Lit(5, 2), Lit(-2, 1), Lit(4, 1), Lit(1, 6), YB, 1, Lit(1, 3)),
      Face(Rat(7, 5), Zero, Lit(3, 1), Lit(1, 1), Lit(1, 6), YA,
           Rat(7, 20), Zero, Lit(3, 1), Lit(1, 1), Lit(1, 6), YB, 1, Lit(1, 3)),
      Face(Rat(7, 20), Lit(-5, 2), Lit(3, 1), Lit(1, 1), Lit(4, 6), YB,
           Rat(7, 5), Lit(-5, 2), Lit(-2, 1), Lit(4, 1), Lit(4, 6), YA, 1, Lit(1, 3)),
      Face(Rat(10, 7), Lit(48, 3), Lit(3, 1), Lit(1, 1), Lit(2, 6), YPure,
           Rat(10, 7), Zero, Lit(3, 1), Lit(1, 1), Lit(98, 6), YPure, 1, Lit(1, 3)),
      Face(Rat(7, 5), Lit(5, 2), Lit(3, 1), Lit(1, 1), Lit(1, 6), YNeg,
           Rat(7, 5), Lit(5, 2), Lit(-2, 1), Lit(4, 1), Lit(1, 6), YA, 1, Lit(1, 3))>>

\* those of them the number model can solve are the faces of a run
RepresentableFace(f) == Representable(RunRiemann(f))

\* the face problem at cell c of a call, in data set d
FaceOfCell(r, d, pair, c) ==
    LET rank == (c[1] - r.lox) + 2 * (c[2] - r.loy) + 3 * (c[3] - r.loz)
                + d + (IF pair = "xz" THEN 1 ELSE 0)
    IN  r.faces[(rank % Len(r.faces)) + 1]

\* what an output element holds before anything is stored to it
Stale == Lit(-7, 0)

\* the tuple (i, j, k, n) stored at offset o
TupleAt(m, o) ==
    <<m.beginx + (o % m.jstride),
      m.beginy + ((o % m.kstride) \div m.jstride),
      m.beginz + ((o % m.nstride) \div m.kstride),
      o \div m.nstride>>

\* the value the data holds at element (i, j, k, n) of field a; the output
\* fields are read from their files like the others
DataValue(r, d, a, t) ==
    LET cmp == Components(r.dir)
        pair == IF a \in {"qmxy", "qpxy"} THEN "xy" ELSE "xz"
        f == FaceOfCell(r, d, pair, <<t[1], t[2], t[3]>>)
        n == t[4]
    IN  IF a \in OutputArrays THEN Lit(-7 - ((t[1] + t[2] + t[3] + t[4] + d) % 3), 0)
        ELSE IF a = "qaux" THEN (IF n = QC THEN Lit(1, 3) ELSE Zero)
        ELSE IF a \in {"qmxy", "qmxz"}
        THEN IF n = QRHO THEN f.rl
             ELSE IF n = cmp.IU THEN f.ul
             ELSE IF n = cmp.IV THEN f.vl
             ELSE IF n = cmp.IV2 THEN f.v2l
             ELSE IF n = QPRES THEN f.pl
             ELSE IF n >= QFS THEN f.spl[n - QFS]
             ELSE Zero
        ELSE IF n = QRHO THEN f.rr
             ELSE IF n = cmp.IU THEN f.ur
             ELSE IF n = cmp.IV THEN f.vr
             ELSE IF n = cmp.IV2 THEN f.v2r
             ELSE IF n = QPRES THEN f.pr
             ELSE IF n >= QFS THEN f.spr[n - QFS]
             ELSE Zero

\* the contents of the fields after readFillData
FieldData(r, f, d) ==
    [a \in Arrays |-> [o \in 0..(f[a].size - 1) |-> DataValue(r, d, a, TupleAt(f[a], o))]]

NumData == 2

(***************************************************************************)
(* State.  prob, res, mres, hpc: a face problem, the solver's results for  *)
(* it and for its mirror image, the calls made; bres: the results with the *)
(* other sign of bc_test_val; pflx: the passive species fluxes pc_cmpflx   *)
(* derives from res; in a launch res holds what                            *)
(* riemann returned to each call of pc_cmpflx and hpc the calls that have  *)
(* returned.  md: the run metadata read by main, and the face problems its *)
(* data files hold.  fm, mem: the metadata                                 *)
(* and the contents of each field.  th: the threads of the launch, each    *)
(* with the calls of pc_cmpflx it has made (icell and fields).  wlog: the  *)
(* stores to the output fields, one entry for each store made.  rlog: the  *)
(* elements of the output fields each thread has read.  oob: an access     *)
(* fell outside its field.  shadow, cells: the values stored through the   *)
(* addressing and the cells decomposed so far.  chk: the loop of           *)
(* checkResults over one array.  host: main's position, its inputs, what   *)
(* it has printed and its exit status.  run: the differential runner, its  *)
(* options and files, its buffers and the device memory behind them.       *)
(***************************************************************************)
VARIABLES prob, res, mres, bres, pflx, hpc, md, fm, mem, th, wlog, rlog, oob, shadow, cells,
          chk, host, run

solver_vars == <<prob, res, mres, bres, pflx, hpc>>
launch_vars == <<md, fm, mem, th, wlog, rlog, oob>>
index_vars == <<shadow, cells>>
host_vars == <<chk, host, run>>
vars == <<prob, res, mres, bres, pflx, hpc, md, fm, mem, th, wlog, rlog, oob, shadow, cells, chk, host, run>>

NoSolver == prob = <<>> /\ res = <<>> /\ mres = <<>> /\ bres = <<>> /\ pflx = <<>> /\ hpc = {}
NoLaunch == th = <<>> /\ wlog = {} /\ rlog = {} /\ oob = FALSE
NoIndex == shadow = <<>> /\ cells = <<>>
NoHost == chk = <<>> /\ host = <<>> /\ run = <<>>

(***************************************************************************)
(* The solver on its own.                                                  *)
(***************************************************************************)
InitRiemann ==
    /\ prob \in {f \in CandidateFaces : Solvable(f)}
    /\ res = <<>>
    /\ mres = <<>>
    /\ bres = <<>>
    /\ pflx = <<>>
    /\ hpc = {}
    /\ md = <<>> /\ fm = <<>> /\ mem = <<>>
    /\ NoLaunch
    /\ NoIndex
    /\ NoHost

\* the solver applied to the face problem
CallRiemann ==
    /\ "riemann" \notin hpc
    /\ res' = RunRiemann(prob)
    /\ hpc' = hpc \cup {"riemann"}
    /\ UNCHANGED <<prob, mres, bres, pflx, launch_vars, index_vars, host_vars>>

\* the solver applied to the mirrored face problem
CallMirror ==
    /\ "mirror" \notin hpc
    /\ mres' = RunRiemann(Mirror(prob))
    /\ hpc' = hpc \cup {"mirror"}
    /\ UNCHANGED <<prob, res, bres, pflx, launch_vars, index_vars, host_vars>>

\* the solver applied to the same face with the other sign of bc_test_val
CallBoundary ==
    /\ "boundary" \notin hpc
    /\ bres' = RunRiemann([prob EXCEPT !.bc = -prob.bc])
    /\ hpc' = hpc \cup {"boundary"}
    /\ UNCHANGED <<prob, res, mres, pflx, launch_vars, index_vars, host_vars>>

\* the passive species fluxes pc_cmpflx computes from the solver's results
CallPassive ==
    /\ "riemann" \in hpc
    /\ "passive" \notin hpc
    /\ pflx' = [n \in Species |->
                  pc_cmpflx_passive(res.ustar, res.uflx_rho, prob.spl[n], prob.spr[n])]
    /\ hpc' = hpc \cup {"passive"}
    /\ UNCHANGED <<prob, res, mres, bres, launch_vars, index_vars, host_vars>>

NextRiemann == CallRiemann \/ CallMirror \/ CallBoundary \/ CallPassive

SpecRiemann == InitRiemann /\ [][NextRiemann]_vars

(***************************************************************************)
(* The launch of pc_cmpflx_launch: one thread for each index of the grid.  *)
(***************************************************************************)
InBounds(a, o) == o \in 0..(fm[a].size - 1)

\* field a at (c, n); an element outside the field has no defined value
Load(m, a, c, n) ==
    LET o == Offset(fm[a], c[1], c[2], c[3], n)
    IN  IF InBounds(a, o) THEN m[a][o] ELSE NaN

\* a store that adds to the element
Store_accumulate(m, a, c, n, v) ==
    LET o == Offset(fm[a], c[1], c[2], c[3], n)
    IN  IF InBounds(a, o) THEN [m EXCEPT ![a][o] = Add(@, v)] ELSE m

\* field a at (c, n) = v
Store(m, a, c, n, v) ==
    LET o == Offset(fm[a], c[1], c[2], c[3], n)
    IN  IF InBounds(a, o) THEN [m EXCEPT ![a][o] = v] ELSE m

\* stores is a sequence of <<field, component, value>>, all at cell c
RECURSIVE StoreAll(_, _, _)
StoreAll(m, c, stores) ==
    IF stores = <<>> THEN m
    ELSE StoreAll(Store(m, stores[1][1], c, stores[1][2], stores[1][3]), c, Tail(stores))

Elements(c, stores) ==
    {<<stores[x][1], Offset(fm[stores[x][1]], c[1], c[2], c[3], stores[x][2])>> :
        x \in 1..Len(stores)}

\* the states pc_cmpflx loads for the face of cell c, with bc_test_val
LoadStates(m, pair, c) ==
    LET A == PairArrays(pair)
        cmp == Components(md[A.dir])
        cb == <<c[1] - cmp.back[1], c[2] - cmp.back[2], c[3] - cmp.back[3]>>
        cav == Mul(Half, Add(Load(m, A.qa, c, QC), Load(m, A.qa, cb, QC)))
    IN  Face(Load(m, A.ql, c, QRHO), Load(m, A.ql, c, cmp.IU), Load(m, A.ql, c, cmp.IV),
             Load(m, A.ql, c, cmp.IV2), Load(m, A.ql, c, QPRES),
             [sp \in Species |-> Load(m, A.ql, c, QFS + sp)],
             Load(m, A.qr, c, QRHO), Load(m, A.qr, c, cmp.IU), Load(m, A.qr, c, cmp.IV),
             Load(m, A.qr, c, cmp.IV2), Load(m, A.qr, c, QPRES),
             [sp \in Species |-> Load(m, A.qr, c, QFS + sp)],
             1, cav)

\* the boundary corrections by bclo and bchi at idx = domlo and domhi + 1,
\* which the source leaves out of the build
LoadFace_corrected(m, pair, c) ==
    LET f == LoadStates(m, pair, c)
        idx == c[md[PairArrays(pair).dir] + 1]
    IN  IF idx = md[PairArrays(pair).domlo] /\ md[PairArrays(pair).bclo] # 0
        THEN [f EXCEPT !.ul = Neg(f.ur), !.vl = f.vr, !.v2l = f.v2r, !.pl = f.pr,
                       !.rl = f.rr]
        ELSE IF idx = md[PairArrays(pair).domhi] + 1 /\ md[PairArrays(pair).bchi] # 0
        THEN [f EXCEPT !.ur = Neg(f.ul), !.vr = f.vl, !.v2r = f.v2l, !.pr = f.pl,
                       !.rr = f.rl]
        ELSE f

\* the states pc_cmpflx gives riemann: those it loaded
LoadFace(m, pair, c) == LoadStates(m, pair, c)

\* the elements pc_cmpflx reads for the face of cell c
FaceReads(pair, c) ==
    LET A == PairArrays(pair)
        cmp == Components(md[A.dir])
        cb == <<c[1] - cmp.back[1], c[2] - cmp.back[2], c[3] - cmp.back[3]>>
    IN  {<<a, Offset(fm[a], c[1], c[2], c[3], n)>> :
            a \in {A.ql, A.qr},
            n \in {QRHO, QU, QV, QW, QPRES} \cup {QFS + sp : sp \in Species}}
        \cup {<<A.qa, Offset(fm[A.qa], c[1], c[2], c[3], QC)>>,
              <<A.qa, Offset(fm[A.qa], cb[1], cb[2], cb[3], QC)>>}

\* the reference parameters riemann fills, in the fields of the call
RiemannStores(pair, r) ==
    LET A == PairArrays(pair)
        cmp == Components(md[A.dir])
    IN  <<<<A.q, cmp.GV, r.qint_iv1>>, <<A.q, cmp.GV2, r.qint_iv2>>,
          <<A.q, GDPRES, r.qint_gdpres>>, <<A.q, GDGAME, r.qint_gdgame>>,
          <<A.q, cmp.GU, r.qint_iu>>,
          <<A.flx, URHO, r.uflx_rho>>,
          <<A.flx, cmp.f_idx[1], r.uflx_u>>, <<A.flx, cmp.f_idx[2], r.uflx_v>>,
          <<A.flx, cmp.f_idx[3], r.uflx_w>>,
          <<A.flx, UEDEN, r.uflx_eden>>, <<A.flx, UEINT, r.uflx_eint>>>>

\* the field and component each reference parameter of riemann is bound to
RiemannBinding(pair) ==
    LET A == PairArrays(pair)
        cmp == Components(md[A.dir])
    IN  [qint_iu |-> <<A.q, cmp.GU>>, qint_iv1 |-> <<A.q, cmp.GV>>,
         qint_iv2 |-> <<A.q, cmp.GV2>>, qint_gdpres |-> <<A.q, GDPRES>>,
         qint_gdgame |-> <<A.q, GDGAME>>,
         uflx_rho |-> <<A.flx, URHO>>, uflx_u |-> <<A.flx, cmp.f_idx[1]>>,
         uflx_v |-> <<A.flx, cmp.f_idx[2]>>, uflx_w |-> <<A.flx, cmp.f_idx[3]>>,
         uflx_eden |-> <<A.flx, UEDEN>>, uflx_eint |-> <<A.flx, UEINT>>]

Assign(to, from) == [to |-> to, from |-> from]

\* a riemann that builds the normal momentum flux in two statements:
\* uflx_u = uflx_rho * qint_iu; uflx_u += qint_gdpres
RiemannAssignments_accumulated ==
    <<Assign("qint_iv1", {}), Assign("qint_iv2", {}),
      Assign("qint_iv1", {"qint_iv1"}), Assign("qint_iv2", {"qint_iv2"}),
      Assign("qint_iu", {}), Assign("qint_gdpres", {}),
      Assign("qint_iu", {"qint_iu"}), Assign("qint_gdpres", {"qint_gdpres"}),
      Assign("qint_iu", {"qint_iu"}), Assign("qint_gdpres", {"qint_gdpres"}),
      Assign("qint_gdgame", {"qint_gdpres"}),
      Assign("qint_iu", {"qint_iu"}),
      Assign("uflx_rho", {"qint_iu"}),
      Assign("uflx_u", {"uflx_rho", "qint_iu"}),
      Assign("uflx_u", {"uflx_u", "qint_gdpres"}),
      Assign("uflx_v", {"uflx_rho", "qint_iv1"}),
      Assign("uflx_w", {"uflx_rho", "qint_iv2"}),
      Assign("uflx_eden", {"qint_iu", "qint_iv1", "qint_iv2", "qint_gdpres"}),
      Assign("uflx_eint", {"qint_iu"})>>

\* the assignments of riemann to its reference parameters bound to q and
\* flx, in the order of the code, each with the reference parameters its
\* right-hand side reads
RiemannAssignments ==
    <<Assign("qint_iv1", {}), Assign("qint_iv2", {}),
      Assign("qint_iv1", {"qint_iv1"}), Assign("qint_iv2", {"qint_iv2"}),
      Assign("qint_iu", {}), Assign("qint_gdpres", {}),
      Assign("qint_iu", {"qint_iu"}), Assign("qint_gdpres", {"qint_gdpres"}),
      Assign("qint_iu", {"qint_iu"}), Assign("qint_gdpres", {"qint_gdpres"}),
      Assign("qint_gdgame", {"qint_gdpres"}),
      Assign("qint_iu", {"qint_iu"}),
      Assign("uflx_rho", {"qint_iu"}),
      Assign("uflx_u", {"uflx_rho", "qint_iu", "qint_gdpres"}),
      Assign("uflx_v", {"uflx_rho", "qint_iv1"}),
      Assign("uflx_w", {"uflx_rho", "qint_iv2"}),
      Assign("uflx_eden", {"qint_iu", "qint_iv1", "qint_iv2", "qint_gdpres"}),
      Assign("uflx_eint", {"qint_iu"})>>

\* the stores of thread t in riemann: <<thread, field, offset, statement,
\* whether the stored value was computed from the element it replaces>>
RiemannEvents(t, pair, c) ==
    {<<t, RiemannBinding(pair)[RiemannAssignments[x].to][1],
       Offset(fm[RiemannBinding(pair)[RiemannAssignments[x].to][1]], c[1], c[2], c[3],
              RiemannBinding(pair)[RiemannAssignments[x].to][2]),
       <<pair, "riemann", x>>,
       RiemannAssignments[x].to \in RiemannAssignments[x].from>> :
        x \in 1..Len(RiemannAssignments)}

\* the stores of thread t in the species loop; pc_cmpflx_passive reads
\* ustar, flxrho, ql and qr
PassiveEvents(t, pair, c) ==
    {<<t, PairArrays(pair).flx,
       Offset(fm[PairArrays(pair).flx], c[1], c[2], c[3], UFS + n),
       <<pair, "passive", n>>, FALSE>> : n \in Species}

\* the species loop of pc_cmpflx
PassiveStores(m, pair, c, ustar) ==
    LET A == PairArrays(pair)
        flxrho == Load(m, A.flx, c, URHO)
    IN  [x \in 1..NUM_SPECIES |->
            <<A.flx, UFS + (x - 1),
              pc_cmpflx_passive(ustar, flxrho, Load(m, A.ql, c, QFS + (x - 1)),
                                Load(m, A.qr, c, QFS + (x - 1)))>>]

Threads(r) == 0..(nblocks(r.ncells) * nthreads - 1)

\* the boundary types and the domain of a run: none met, and a domain of
\* one cell along dir with boundary types at both ends
BoundaryCases ==
    {[bclo |-> 0, bchi |-> 0, domlo |-> 0, domhi |-> 7],
     [bclo |-> 1, bchi |-> 2, domlo |-> 0, domhi |-> 0]}

\* the fields against the block: qaux with a layer below the block and the
\* other fields exactly over it, or the fields of the second call wider than
\* the block and qaux exactly over it
GhostCases == {[gxz |-> 0, gqa |-> 1], [gxz |-> 1, gqa |-> 0]}

InitLaunch ==
    /\ \E faces \in {SelectSeq(LaunchFaceData, RepresentableFace)} :
       \E r \in LaunchRuns, b \in BoundaryCases, g \in GhostCases, d \in 0..(NumData - 1) :
          /\ md = [faces |-> faces] @@
                  [r EXCEPT !.bclo = b.bclo, !.bchi = b.bchi,
                            !.domlo = b.domlo, !.domhi = b.domhi]
          /\ fm = FieldMetadata(r, g.gxz, g.gqa)
          /\ mem = FieldData(md, fm, d)
    /\ th = [t \in Threads(md) |->
                [pc |-> "loop",
                 icell |-> global_index(nthreads, t \div nthreads, t % nthreads),
                 cell |-> <<0, 0, 0>>, pair |-> "xy", ustar |-> Zero,
                 dummy_flx |-> [n \in Species |-> Zero], calls |-> <<>>]]
    /\ wlog = {} /\ rlog = {} /\ oob = FALSE
    /\ NoSolver
    /\ NoHost
    /\ NoIndex

\* icell < ncells: the cell of icell, then the first call
LoopEnter(t) ==
    /\ th[t].pc = "loop"
    /\ th[t].icell < md.ncells
    /\ th' = [th EXCEPT ![t].pc = "riemann", ![t].pair = "xy",
                        ![t].cell = cell_of(th[t].icell, md.lenx, md.lenxy,
                                            md.lox, md.loy, md.loz)]
    /\ UNCHANGED <<md, fm, mem, wlog, rlog, oob, solver_vars, index_vars, host_vars>>

\* icell >= ncells: the thread ends
LoopExit(t) ==
    /\ th[t].pc = "loop"
    /\ th[t].icell >= md.ncells
    /\ th' = [th EXCEPT ![t].pc = "done"]
    /\ UNCHANGED <<md, fm, mem, wlog, rlog, oob, solver_vars, index_vars, host_vars>>

\* the elements of the output fields riemann reads back through its
\* reference parameters: qint_iu, qint_iv1, qint_iv2, qint_gdpres, uflx_rho
RiemannReads(pair, c) ==
    {<<PairArrays(pair).q, Offset(fm[PairArrays(pair).q], c[1], c[2], c[3], n)>> :
        n \in {GDU, GDV, GDW, GDPRES}}
    \cup {<<PairArrays(pair).flx, Offset(fm[PairArrays(pair).flx], c[1], c[2], c[3], URHO)>>}

\* pc_cmpflx up to the return of riemann
FaceRiemann(t) ==
    /\ th[t].pc = "riemann"
    /\ \E r \in {RunRiemann(LoadFace(mem, th[t].pair, th[t].cell))} :
       \E stores \in {RiemannStores(th[t].pair, r)} :
          /\ mem' = StoreAll(mem, th[t].cell, stores)
          /\ wlog' = wlog \cup RiemannEvents(t, th[t].pair, th[t].cell)
          /\ rlog' = rlog \cup {<<t, e[1], e[2]>> : e \in RiemannReads(th[t].pair, th[t].cell)}
          /\ oob' = (oob \/ \E e \in Elements(th[t].cell, stores)
                                     \cup FaceReads(th[t].pair, th[t].cell) :
                              ~InBounds(e[1], e[2]))
          /\ th' = [th EXCEPT ![t].pc = "passive", ![t].ustar = r.ustar,
                              ![t].dummy_flx = r.uflx_rhoY,
                              ![t].calls = Append(@, <<th[t].icell, th[t].pair>>)]
          /\ res' = (<<th[t].pair, th[t].cell>> :> r) @@ res
    /\ UNCHANGED <<md, fm, prob, mres, bres, pflx, hpc, index_vars, host_vars>>

\* pc_cmpflx from the read of the mass flux to its end; after the second
\* call the thread steps to its next cell
FacePassive(t) ==
    /\ th[t].pc = "passive"
    /\ \E stores \in {PassiveStores(mem, th[t].pair, th[t].cell, th[t].ustar)},
          urho \in {Offset(fm[PairArrays(th[t].pair).flx],
                           th[t].cell[1], th[t].cell[2], th[t].cell[3], URHO)} :
          /\ mem' = StoreAll(mem, th[t].cell, stores)
          /\ wlog' = wlog \cup PassiveEvents(t, th[t].pair, th[t].cell)
          /\ rlog' = rlog \cup {<<t, PairArrays(th[t].pair).flx, urho>>}
          /\ oob' = (oob \/ ~InBounds(PairArrays(th[t].pair).flx, urho)
                         \/ \E e \in Elements(th[t].cell, stores) : ~InBounds(e[1], e[2]))
    /\ hpc' = hpc \cup {<<th[t].pair, th[t].cell>>}
    /\ th' = IF th[t].pair = "xy"
             THEN [th EXCEPT ![t].pc = "riemann", ![t].pair = "xz"]
             ELSE [th EXCEPT ![t].pc = "loop",
                             ![t].icell = @ + nthreads * nblocks(md.ncells)]
    /\ UNCHANGED <<md, fm, prob, res, mres, bres, pflx, index_vars, host_vars>>

Next ==
    \/ \E t \in DOMAIN th : LoopEnter(t)
    \/ \E t \in DOMAIN th : LoopExit(t)
    \/ \E t \in DOMAIN th : FaceRiemann(t)
    \/ \E t \in DOMAIN th : FacePassive(t)

Spec == InitLaunch /\ [][Next]_vars

(***************************************************************************)
(* One strided field on its own: stores and loads through the addressing   *)
(* of pc_cmpflx.  shadow.stored is the value last stored at each index     *)
(* tuple, shadow.got the load made since the last store.                   *)
(***************************************************************************)
MaxExtent == 2
MaxComp == 2
MaxStores == 2
Origins == {<<0, 0, 0>>, <<1, -1, 2>>}
FieldValues == {One, Half}

InitField ==
    /\ \E nComp \in 1..MaxComp, nx \in 1..MaxExtent, ny \in 1..MaxExtent,
          nz \in 1..MaxExtent, b \in Origins :
          fm = [a \in {"flxy"} |-> Metadata(nComp, nx, ny, nz, b[1], b[2], b[3])]
    /\ mem = [a \in {"flxy"} |-> [o \in 0..(fm[a].size - 1) |-> Stale]]
    /\ shadow = [stored |-> [t \in Tuples(fm["flxy"]) |-> Stale], got |-> <<>>]
    /\ cells = <<>>
    /\ md = <<>>
    /\ NoLaunch
    /\ NoSolver
    /\ NoHost

\* field(i, j, k, n) = v
StoreAt(t, v) ==
    /\ \/ shadow.stored[t] # Stale
       \/ Cardinality({s \in DOMAIN shadow.stored : shadow.stored[s] # Stale}) < MaxStores
    /\ mem' = Store(mem, "flxy", <<t[1], t[2], t[3]>>, t[4], v)
    /\ shadow' = [shadow EXCEPT !.stored[t] = v, !.got = <<>>]
    /\ UNCHANGED <<md, fm, th, wlog, rlog, oob, solver_vars, cells, host_vars>>

\* v = field(i, j, k, n)
LoadAt(t) ==
    /\ shadow' = [shadow EXCEPT !.got = <<t, Load(mem, "flxy", <<t[1], t[2], t[3]>>, t[4])>>]
    /\ UNCHANGED <<md, fm, mem, th, wlog, rlog, oob, solver_vars, cells, host_vars>>

NextField ==
    \/ \E t \in Tuples(fm["flxy"]), v \in FieldValues : StoreAt(t, v)
    \/ \E t \in Tuples(fm["flxy"]) : LoadAt(t)

SpecField == InitField /\ [][NextField]_vars

(***************************************************************************)
(* The decomposition of the linear cell number on its own.  cells holds    *)
(* the pairs <<icell, (i, j, k)>> computed so far.                         *)
(***************************************************************************)
MaxLenx == 3
MaxLenxy == 6
MaxLenz == 2
MaxCells == 3

InitCells ==
    /\ \E lenx \in 1..MaxLenx, lenz \in 1..MaxLenz, lo \in Origins :
          \E lenxy \in lenx..MaxLenxy :
              md = RunMetadata(0, lenxy * lenz, lenx, lenxy, lo[1], lo[2], lo[3])
    /\ cells = {}
    /\ shadow = <<>>
    /\ fm = <<>> /\ mem = <<>>
    /\ NoLaunch
    /\ NoSolver
    /\ NoHost

\* the first statements of the loop body for one icell < ncells
Decompose(icell) ==
    /\ Cardinality(cells) < MaxCells
    /\ cells' = cells \cup
                  {<<icell, cell_of(icell, md.lenx, md.lenxy, md.lox, md.loy, md.loz)>>}
    /\ UNCHANGED <<md, fm, mem, th, wlog, rlog, oob, solver_vars, shadow, host_vars>>

NextCells == \E icell \in 0..(md.ncells - 1) : Decompose(icell)

SpecCells == InitCells /\ [][NextCells]_vars

(***************************************************************************)
(* checkResults on its own: the loop over the elements of one output       *)
(* array, a the computed and b the reference value of element i.  chk.out  *)
(* holds the lines printed, chk.mis the indices at which the values        *)
(* differed by more than the tolerance or were not finite.                 *)
(***************************************************************************)
MaxCheck == 12
PrintLimit == 10

\* a comparison that leaves out the relative tolerance
isclose_absolute(a, b, rtol, atol) == LessEq(FAbs(Sub(a, b)), atol)

\* isclose = std::abs(a-b) <= std::max(rtol*max(std::abs(a),std::abs(b)), atol)
isclose(a, b, rtol, atol) ==
    LessEq(FAbs(Sub(a, b)), Max(Mul(rtol, Max(FAbs(a), FAbs(b))), atol))

\* the condition under which the loop body counts element i
NotClose(a, b, rtol, atol) == ~isclose(a, b, rtol, atol) \/ ~IsFinite(a) \/ ~IsFinite(b)

\* rtol and atol: the defaults of main, and a pair given on the command line
Tolerances == {<<Lit(1, -5), Lit(1, -8)>>, <<Lit(1, -1), One>>}

\* computed and reference values of an element
CheckPairs ==
    {<<One, One>>, <<One, Lit(2, 0)>>, <<Lit(1000000, 0), Lit(1000001, 0)>>,
     <<Zero, Lit(5, -9)>>, <<Zero, Lit(1, -8)>>, <<Lit(10, 0), Lit(9, 0)>>,
     <<Lit(10, 0), Lit(8, 0)>>, <<NaN, One>>, <<One, NaN>>, <<PInf, PInf>>,
     <<PInf, One>>, <<One, NInf>>}

InitCheck ==
    /\ \E size \in 0..MaxCheck, tol \in Tolerances :
          chk = [size |-> size, rtol |-> tol[1], atol |-> tol[2], i |-> 0, count |-> 0,
                 failure |-> FALSE, out |-> <<>>, mis |-> {}, pc |-> "loop"]
    /\ host = <<>> /\ run = <<>>
    /\ md = <<>> /\ fm = <<>> /\ mem = <<>>
    /\ NoLaunch
    /\ NoSolver
    /\ NoIndex

\* a, b differ by more than max(rtol*max(|a|,|b|), atol), or one of them is
\* not finite
Mismatch(a, b, rtol, atol) ==
    \/ Greater(FAbs(Sub(a, b)), Max(Mul(rtol, Max(FAbs(a), FAbs(b))), atol))
    \/ ~IsFinite(a) \/ ~IsFinite(b)

\* one pass of the loop body, for element i
CheckElement(a, b) ==
    /\ chk.pc = "loop" /\ chk.i < chk.size
    /\ chk' = IF NotClose(a, b, chk.rtol, chk.atol)
              THEN [chk EXCEPT !.failure = TRUE,
                               !.out = IF chk.count < PrintLimit
                                       THEN Append(@, <<"i", chk.i>>) ELSE @,
                               !.count = @ + 1,
                               !.i = @ + 1,
                               !.mis = IF Mismatch(a, b, chk.rtol, chk.atol)
                                       THEN @ \cup {chk.i} ELSE @]
              ELSE [chk EXCEPT !.i = @ + 1,
                               !.mis = IF Mismatch(a, b, chk.rtol, chk.atol)
                                       THEN @ \cup {chk.i} ELSE @]
    /\ UNCHANGED <<solver_vars, launch_vars, index_vars, host, run>>

\* the end of the loop: the line with the count, if failure is set
CheckReport ==
    /\ chk.pc = "loop" /\ chk.i = chk.size
    /\ chk' = [chk EXCEPT !.pc = "done",
                          !.out = IF chk.failure THEN Append(@, <<"has", chk.count>>) ELSE @]
    /\ UNCHANGED <<solver_vars, launch_vars, index_vars, host, run>>

NextCheck ==
    \/ \E p \in CheckPairs : CheckElement(p[1], p[2])
    \/ CheckReport

SpecCheck == InitCheck /\ [][NextCheck]_vars

(***************************************************************************)
(* main on its own: the reads of the metadata and of the nine fields, the  *)
(* launch, and the checks of the four output fields.  host.files is the    *)
(* one file of the run that is missing or too short, if any; host.bad and  *)
(* host.differ say whether the data hold non-finite values and whether the *)
(* outputs differ from the reference; host.unread is set once main holds a *)
(* value no file gave it, host.met once the read of the faulty file has    *)
(* been made, host.used once a copy to the device or the launch was made   *)
(* with host.unread set.  A call with a null FILE* and an index past the   *)
(* end of strs are undefined: the run ends abnormally or goes on.          *)
(***************************************************************************)
OutputOrder == <<"flxy", "flxz", "qxy", "qxz">>

FileCases ==
    {[kind |-> "ok", at |-> 0], [kind |-> "meta_missing", at |-> 0],
     [kind |-> "meta_short", at |-> 0]}
    \cup [kind : {"csv_missing", "csv_short", "bin_missing", "bin_short"},
          at : 1..Len(ArrayOrder)]
    \cup [kind : {"ref_missing", "out_unwritable"}, at : 1..Len(OutputOrder)]

\* a macro that prints the error and goes on
HIP_CALL_no_exit(h) == [h EXCEPT !.devfail = TRUE, !.log = @ \cup {"HIP ERROR"}]

\* HIP_CALL on a call that failed
HIP_CALL(h) ==
    [h EXCEPT !.pc = "exit", !.exit = "nonzero", !.devfail = TRUE, !.log = @ \cup {"HIP ERROR"}]

\* an uncaught exception of the device library
DeviceThrow(h) == [h EXCEPT !.pc = "exit", !.exit = "nonzero", !.devfail = TRUE]

\* an uncaught std::invalid_argument of std::stoi, or a fault on a null FILE*
Abnormal(h) == [h EXCEPT !.pc = "exit", !.exit = "nonzero", !.met = TRUE]

InitHost ==
    /\ \E f \in FileCases, bad \in BOOLEAN, differ \in BOOLEAN :
          host = [pc |-> "meta", n |-> 0, files |-> f, bad |-> bad, differ |-> differ,
                  exit |-> "none", devfail |-> FALSE, log |-> {}, unread |-> FALSE,
                  met |-> FALSE, used |-> FALSE, copied |-> {}, launched |-> FALSE,
                  written |-> 0, checked |-> 0, allocs |-> 0, frees |-> 0,
                  outside |-> FALSE]
    /\ chk = <<>> /\ run = <<>>
    /\ md = <<>> /\ fm = <<>> /\ mem = <<>>
    /\ NoLaunch
    /\ NoSolver
    /\ NoIndex

HostStep(h) ==
    /\ host' = h
    /\ UNCHANGED <<solver_vars, launch_vars, index_vars, chk, run>>

\* main: the run metadata, strs[0..10]
ReadRunMetadata ==
    /\ host.pc = "meta"
    /\ \/ /\ host.files.kind = "meta_missing"
          /\ HostStep(Abnormal(host))
       \/ /\ host.files.kind = "meta_short"
          /\ \/ HostStep(Abnormal(host))
             \/ HostStep([host EXCEPT !.pc = "malloc", !.unread = TRUE, !.met = TRUE])
       \/ /\ host.files.kind \notin {"meta_missing", "meta_short"}
          /\ HostStep([host EXCEPT !.pc = "malloc"])

\* a call on the device that uses the pool: host.outside is set if the pool
\* is not allocated, or freed already
OnDevice(h) == [h EXCEPT !.outside = @ \/ host.allocs # 1 \/ host.frees # 0]

\* a main that leaves the pool unallocated
PoolMalloc_skipped ==
    /\ host.pc = "malloc"
    /\ HostStep([host EXCEPT !.pc = "read", !.n = 1])

\* HIP_CALL(hipMalloc(&pool, e))
PoolMalloc ==
    /\ host.pc = "malloc"
    /\ \/ HostStep(HIP_CALL(host))
       \/ HostStep([host EXCEPT !.pc = "read", !.n = 1, !.allocs = @ + 1])

\* what readFillData holds of field x before its hipMemcpy
AfterRead(h, x) ==
    IF h.files.at = x /\ h.files.kind \in {"csv_short", "bin_missing", "bin_short"}
    THEN [h EXCEPT !.unread = TRUE, !.met = TRUE]
    ELSE h

\* readFillData(..) of field x, with its hipMemcpy to the device
ReadFillData(x) ==
    /\ host.pc = "read" /\ host.n = x
    /\ \/ /\ host.files.at = x
          /\ host.files.kind \in {"csv_missing", "csv_short", "bin_missing"}
          /\ HostStep(Abnormal(host))
       \/ /\ ~(host.files.at = x /\ host.files.kind = "csv_missing")
          /\ \/ HostStep(OnDevice(HIP_CALL(AfterRead(host, x))))
             \/ HostStep(OnDevice([AfterRead(host, x) EXCEPT
                            !.copied = @ \cup {ArrayOrder[x]},
                            !.used = @ \/ AfterRead(host, x).unread,
                            !.n = IF x = Len(ArrayOrder) THEN 0 ELSE x + 1,
                            !.pc = IF x = Len(ArrayOrder) THEN "badin" ELSE "read"]))

\* checkBadValues of all fields (before the launch) or of the outputs (after)
CheckBadValues(from, to) ==
    /\ host.pc = from
    /\ \/ HostStep(OnDevice(DeviceThrow(host)))
       \/ HostStep(OnDevice([host EXCEPT !.pc = to, !.n = IF to = "write" THEN 1 ELSE 0,
                                !.log = IF host.bad THEN @ \cup {"bad values"} ELSE @]))

\* HIP_CALL(hipGetLastError()); HIP_CALL(hipStreamSynchronize(stream))
Synchronize(from, to) ==
    /\ host.pc = from
    /\ \/ HostStep(HIP_CALL(host))
       \/ HostStep([host EXCEPT !.pc = to])

\* pc_cmpflx_launch<<<nblocks, nthreads>>>(..)
Launch ==
    /\ host.pc = "launch"
    /\ HostStep(OnDevice([host EXCEPT !.pc = "sync2", !.launched = TRUE,
                                      !.used = @ \/ host.unread]))

\* writeToFile of output y
WriteToFile(y) ==
    /\ host.pc = "write" /\ host.n = y
    /\ \/ HostStep(OnDevice(HIP_CALL(host)))
       \/ /\ host.files = [kind |-> "out_unwritable", at |-> y]
          /\ HostStep(OnDevice([host EXCEPT !.pc = "exit", !.exit = "nonzero"]))
       \/ HostStep(OnDevice([host EXCEPT !.written = @ + 1,
                                !.n = IF y = Len(OutputOrder) THEN 1 ELSE y + 1,
                                !.pc = IF y = Len(OutputOrder) THEN "check" ELSE "write"]))

\* checkResults of output y
CheckResults(y) ==
    /\ host.pc = "check" /\ host.n = y
    /\ \/ HostStep(OnDevice(HIP_CALL(host)))
       \/ /\ host.files = [kind |-> "ref_missing", at |-> y]
          /\ HostStep(OnDevice([host EXCEPT !.pc = "exit", !.exit = "nonzero"]))
       \/ HostStep(OnDevice([host EXCEPT !.checked = @ + 1,
                                !.log = IF host.differ THEN @ \cup {"NOT close"} ELSE @,
                                !.n = IF y = Len(OutputOrder) THEN 0 ELSE y + 1,
                                !.pc = IF y = Len(OutputOrder) THEN "free" ELSE "check"]))

\* HIP_CALL(hipFree(pool)); return 0
PoolFree ==
    /\ host.pc = "free"
    /\ \/ HostStep(HIP_CALL(host))
       \/ HostStep([host EXCEPT !.pc = "exit", !.exit = "zero", !.frees = @ + 1])

NextHost ==
    \/ ReadRunMetadata
    \/ PoolMalloc
    \/ \E x \in 1..Len(ArrayOrder) : ReadFillData(x)
    \/ CheckBadValues("badin", "sync1")
    \/ Synchronize("sync1", "launch")
    \/ Launch
    \/ Synchronize("sync2", "badout")
    \/ CheckBadValues("badout", "write")
    \/ \E y \in 1..Len(OutputOrder) : WriteToFile(y)
    \/ \E y \in 1..Len(OutputOrder) : CheckResults(y)
    \/ PoolFree

SpecHost == InitHost /\ [][NextHost]_vars

(***************************************************************************)
(* The differential runner hip_runner: two device binaries of one kernel   *)
(* are launched on the same inputs and their output buffers compared.      *)
(* Bytes are 0..MaxByte (0..255 in the source) and --buffer-size is        *)
(* BufferSize (4096 by default).  Argument indices count from 1 here and   *)
(* from 0 in the source.  run.exit is -1 until the runner has exited.      *)
(* A buffer is [size, alloc, init, out_a, out_b, dev]: dev are the bytes   *)
(* of its device allocation.  A copy of more bytes than the allocation     *)
(* holds is undefined: it fails, or it goes on past the allocation, where  *)
(* reads give run.junk.                                                    *)
(***************************************************************************)
BufferSize == 2
MaxByte == 1
DefaultSeed == 12345
Bytes == 0..MaxByte

\* draw k of the generator seeded with seed, as a byte
Rand(seed, k) == (seed + (k * (k + 1)) \div 2) % (MaxByte + 1)

\* fill_random(data, rng) with the generator at draw k
fill_random(n, seed, k) == [x \in 1..n |-> Rand(seed, k + x - 1)]

GlobalBuffer == [kind |-> "global_buffer", size |-> 0]
ByValue == [kind |-> "by_value", size |-> 1]
Value == [kind |-> "value", size |-> 2]
Local == [kind |-> "local", size |-> 0]

\* the argument lists load_spec reads
ArgLists ==
    {<<GlobalBuffer>>, <<GlobalBuffer, ByValue>>, <<Value, GlobalBuffer, GlobalBuffer>>,
     <<GlobalBuffer, Local>>}

\* an InputSpec as constructed
NoInput ==
    [given |-> FALSE, readable |-> TRUE, badhex |-> FALSE, has_seed |-> FALSE, seed |-> DefaultSeed,
     has_launch |-> FALSE, launch |-> <<1, 1>>, buffer_sizes |-> <<>>, values |-> <<>>]

\* the input specs of a run: none, an unreadable one, one with a hex value
\* that has a digit std::stoul rejects, and ones with a seed
\* and launch dimensions, with a buffer smaller and larger than
\* --buffer-size, and with value overrides that fit and that do not
InputSpecs ==
    {NoInput,
     [NoInput EXCEPT !.given = TRUE, !.readable = FALSE],
     [NoInput EXCEPT !.given = TRUE, !.badhex = TRUE],
     [NoInput EXCEPT !.given = TRUE, !.has_seed = TRUE, !.seed = 7,
                     !.has_launch = TRUE, !.launch = <<2, 3>>],
     [NoInput EXCEPT !.given = TRUE, !.buffer_sizes = (1 :> (BufferSize - 1))],
     [NoInput EXCEPT !.given = TRUE, !.buffer_sizes = (1 :> (BufferSize + 1))],
     [NoInput EXCEPT !.given = TRUE, !.buffer_sizes = (2 :> (BufferSize + 1)),
                     !.values = (1 :> [kind |-> "int", int_value |-> MaxByte + 1,
                                       bytes |-> <<>>])],
     [NoInput EXCEPT !.given = TRUE,
                     !.values = (2 :> [kind |-> "bytes", int_value |-> 0,
                                       bytes |-> <<1, 0>>])]}

\* apply_value_override: [applied, had_error, data]
apply_value_override(index, spec, data) ==
    IF index \notin DOMAIN spec.values
    THEN [applied |-> FALSE, had_error |-> FALSE, data |-> data]
    ELSE IF spec.values[index].kind = "int"
    THEN [applied |-> TRUE, had_error |-> FALSE,
          data |-> [x \in 1..Len(data) |->
                       (spec.values[index].int_value \div ((MaxByte + 1) ^ (x - 1)))
                           % (MaxByte + 1)]]
    ELSE IF Len(spec.values[index].bytes) > Len(data)
    THEN [applied |-> FALSE, had_error |-> TRUE, data |-> data]
    ELSE [applied |-> TRUE, had_error |-> FALSE,
          data |-> [x \in 1..Len(data) |->
                       IF x <= Len(spec.values[index].bytes)
                       THEN spec.values[index].bytes[x] ELSE 0]]

\* the device code of an entry point: it leaves the buffer, inverts every
\* byte of the allocation, or writes the last byte of the allocation
Kernels == {"keep", "flip", "mark"}

Kernel(k, dev) ==
    IF k = "flip" THEN [x \in 1..Len(dev) |-> MaxByte - dev[x]]
    ELSE IF k = "mark" THEN [x \in 1..Len(dev) |-> IF x = Len(dev) THEN MaxByte ELSE dev[x]]
    ELSE dev

InitRunner ==
    /\ \E complete \in BOOLEAN, badsize \in BOOLEAN, specok \in BOOLEAN, args \in ArgLists,
          input \in InputSpecs, ka \in Kernels, kb \in Kernels, junk \in Bytes :
          run = [pc |-> "options", complete |-> complete, badsize |-> badsize,
                 buffer_size |-> BufferSize,
                 specok |-> specok, args |-> args, input |-> input,
                 kernel_a |-> ka, kernel_b |-> kb, junk |-> junk,
                 draws |-> 0, i |-> 1, buffers |-> <<>>, params |-> <<>>,
                 seen_a |-> <<>>, seen_b |-> <<>>, par_a |-> <<>>, par_b |-> <<>>,
                 loaded |-> FALSE, ran_a |-> FALSE, ran_b |-> FALSE,
                 exit |-> -1, log |-> {}]
    /\ chk = <<>> /\ host = <<>>
    /\ md = <<>> /\ fm = <<>> /\ mem = <<>>
    /\ NoLaunch
    /\ NoSolver
    /\ NoIndex

RunnerStep(r) ==
    /\ run' = r
    /\ UNCHANGED <<solver_vars, launch_vars, index_vars, chk, host>>

\* std::cerr << msg; return code
Return(r, msg, code) == [r EXCEPT !.pc = "exit", !.exit = code, !.log = @ \cup {msg}]

\* an uncaught exception of std::stoul: std::terminate, SIGABRT
Aborted == 128 + 6
Terminate(r) == [r EXCEPT !.pc = "exit", !.exit = Aborted]

\* main: the options; --hsaco-a, --hsaco-b and --spec are required, and the
\* value of --buffer-size goes through std::stoul
ParseOptions ==
    /\ run.pc = "options"
    /\ IF run.badsize
       THEN RunnerStep(Terminate(run))
       ELSE IF run.complete
       THEN RunnerStep([run EXCEPT !.pc = "spec"])
       ELSE RunnerStep(Return(run, "usage", 2))

\* main: load_spec
LoadSpec ==
    /\ run.pc = "spec"
    /\ IF run.specok
       THEN RunnerStep([run EXCEPT !.pc = "load"])
       ELSE RunnerStep(Return(run, "failed to read spec", 2))

\* main: hipModuleLoad of both binaries
ModuleLoad ==
    /\ run.pc = "load"
    /\ \/ RunnerStep(Return(run, "hipModuleLoad failed", 1))
       \/ RunnerStep([run EXCEPT !.pc = "function", !.loaded = TRUE])

\* main: hipModuleGetFunction in both modules
GetFunction ==
    /\ run.pc = "function"
    /\ \/ RunnerStep(Return(run, "hipModuleGetFunction failed", 1))
       \/ RunnerStep([run EXCEPT !.pc = "input"])

\* main: parse_input_spec, if --input-spec was given
ParseInputSpec ==
    /\ run.pc = "input"
    /\ IF run.input.given /\ run.input.badhex
       THEN RunnerStep(Terminate(run))
       ELSE IF run.input.given /\ ~run.input.readable
       THEN RunnerStep(Return(run, "failed to read input spec", 2))
       ELSE RunnerStep([run EXCEPT !.pc = "setup", !.i = 1])

\* the seed of rng
Seed(r) == IF r.input.has_seed THEN r.input.seed ELSE DefaultSeed

\* the size of the device allocation of a buffer of host size n
AllocSize(buffer_size, n) == buffer_size

\* the loop body of main for a global_buffer argument
SetupBuffer(r, size) ==
    [r EXCEPT !.buffers = Append(@, [size |-> size,
                                     alloc |-> AllocSize(r.buffer_size, size),
                                     init |-> fill_random(size, Seed(r), r.draws),
                                     out_a |-> [x \in 1..size |-> 0],
                                     out_b |-> [x \in 1..size |-> 0],
                                     dev |-> [x \in 1..AllocSize(r.buffer_size, size) |->
                                                 r.junk]]),
              !.params = Append(@, <<"pointer", Len(r.buffers) + 1>>),
              !.draws = @ + size,
              !.i = @ + 1,
              !.pc = IF r.i = Len(r.args) THEN "run_a" ELSE "setup"]

\* the loop body of main for a by_value or value argument
SetupValue(r, ov) ==
    [r EXCEPT !.params = Append(@, <<"bytes", IF ov.applied THEN ov.data
                                              ELSE fill_random(Len(ov.data), Seed(r), r.draws)>>),
              !.draws = IF ov.applied THEN @ ELSE @ + Len(ov.data),
              !.i = @ + 1,
              !.pc = IF r.i = Len(r.args) THEN "run_a" ELSE "setup"]

\* main: one pass of the loop over args
SetupArg ==
    /\ run.pc = "setup" /\ run.i <= Len(run.args)
    /\ IF run.args[run.i].kind = "global_buffer"
       THEN \/ RunnerStep(Return(run, "hipMalloc failed", 1))
            \/ RunnerStep(SetupBuffer(run, IF run.i \in DOMAIN run.input.buffer_sizes
                                           THEN run.input.buffer_sizes[run.i]
                                           ELSE run.buffer_size))
       ELSE IF run.args[run.i].kind \in {"by_value", "value"}
       THEN \E ov \in {apply_value_override(run.i, run.input,
                                            [x \in 1..run.args[run.i].size |-> 0])} :
               IF ov.had_error
               THEN RunnerStep(Return(run, "value override too large", 1))
               ELSE RunnerStep(SetupValue(run, ov))
       ELSE RunnerStep(Return(run, "unsupported arg kind", 1))

\* hipMemcpy(buf.device_ptr, buf.init.data(), buf.size, hipMemcpyHostToDevice)
ToDevice(b) ==
    [b EXCEPT !.dev = [x \in 1..b.alloc |-> IF x <= b.size THEN b.init[x] ELSE b.dev[x]]]

\* hipMemcpy(out.data(), buf.device_ptr, buf.size, hipMemcpyDeviceToHost)
FromDevice(b, junk) == [x \in 1..b.size |-> IF x <= b.alloc THEN b.dev[x] ELSE junk]

\* the launch of kernel k on the buffers
Launched(k, bufs) == [x \in 1..Len(bufs) |-> [bufs[x] EXCEPT !.dev = Kernel(k, @)]]

\* run_kernel and the test of its result in main
RunKernelA ==
    /\ run.pc = "run_a"
    /\ \/ RunnerStep(Return(run, "kernel A failed", 1))
       \/ \E reset \in {[x \in 1..Len(run.buffers) |-> ToDevice(run.buffers[x])]} :
          \E done \in {Launched(run.kernel_a, reset)} :
             RunnerStep([run EXCEPT
                 !.seen_a = [x \in 1..Len(reset) |-> reset[x].dev],
                 !.par_a = <<run.params, IF run.input.has_launch THEN run.input.launch
                                         ELSE <<1, 1>>>>,
                 !.buffers = [x \in 1..Len(done) |->
                                 [done[x] EXCEPT !.out_a = FromDevice(done[x], run.junk)]],
                 !.ran_a = TRUE, !.pc = "run_b"])

\* run_kernel_b and the test of its result in main
RunKernelB ==
    /\ run.pc = "run_b"
    /\ \/ RunnerStep(Return(run, "kernel B failed", 1))
       \/ \E reset \in {[x \in 1..Len(run.buffers) |-> ToDevice(run.buffers[x])]} :
          \E done \in {Launched(run.kernel_b, reset)} :
             RunnerStep([run EXCEPT
                 !.seen_b = [x \in 1..Len(reset) |-> reset[x].dev],
                 !.par_b = <<run.params, IF run.input.has_launch THEN run.input.launch
                                         ELSE <<1, 1>>>>,
                 !.buffers = [x \in 1..Len(done) |->
                                 [done[x] EXCEPT !.out_b = FromDevice(done[x], run.junk)]],
                 !.ran_b = TRUE, !.pc = "compare"])

\* a main that does not compare the outputs
Compare_skipped ==
    /\ run.pc = "compare"
    /\ RunnerStep([run EXCEPT !.pc = "exit", !.exit = 0])

\* main: std::equal over the buffers, hipFree, hipModuleUnload, return 0
Compare ==
    /\ run.pc = "compare"
    /\ IF \E x \in 1..Len(run.buffers) : run.buffers[x].out_a # run.buffers[x].out_b
       THEN RunnerStep(Return(run, "output mismatch", 1))
       ELSE RunnerStep([run EXCEPT !.pc = "exit", !.exit = 0])

NextRunner ==
    \/ ParseOptions
    \/ LoadSpec
    \/ ModuleLoad
    \/ GetFunction
    \/ ParseInputSpec
    \/ SetupArg
    \/ RunKernelA
    \/ RunKernelB
    \/ Compare

SpecRunner == InitRunner /\ [][NextRunner]_vars

(***************************************************************************)
(* Properties of the solver.                                               *)
(***************************************************************************)
Called == "riemann" \in hpc
Mirrored == "mirror" \in hpc

\* positive densities and pressures, mass fractions that are a composition
Admissible(f) ==
    /\ Greater(f.rl, Zero) /\ Greater(f.rr, Zero)
    /\ Greater(f.pl, Zero) /\ Greater(f.pr, Zero)
    /\ \A n \in Species : GreaterEq(f.spl[n], Zero) /\ GreaterEq(f.spr[n], Zero)
    /\ SumSpecies(f.spl) = One /\ SumSpecies(f.spr) = One

Tiny == Lit(1, -20)
TinyFlow(f) == Admissible(f) /\ f.ul = Tiny /\ f.ur = Tiny

\* C3 as stated: with u_L = u_R = 1e-20 the interface normal velocity
\* returned by riemann is exactly zero.
C3_FilterEngages == (Called /\ TinyFlow(prob)) => IsZero(res.qint_iu)

\* C3 amended: with u_L = u_R = 1e-20 and P_L = P_R the sonic filter does
\* not engage (the threshold smallu/2 (|u_L| + |u_R|) is 1e-32, below |u*|):
\* u* is left as computed and the interface normal velocity is 1e-20.
C3_FilterRelative ==
    (Called /\ TinyFlow(prob) /\ prob.pl = prob.pr) =>
        /\ ~res.filtered
        /\ res.ustar = Tiny
        /\ res.qint_iu = Tiny

C3_Witness ==
    /\ Called /\ TinyFlow(prob) /\ prob.pl = prob.pr /\ prob.rl # prob.rr
    /\ ~res.filtered
    /\ res.qint_iu = Tiny

\* C4: the mirrored problem (sides swapped, normal velocities negated) has
\* the negated mass flux, interface normal velocity and tangential momentum
\* fluxes, also when the star velocity is zero.
C4_MirrorSymmetry ==
    (Called /\ Mirrored /\ Admissible(prob)) =>
        /\ mres.uflx_rho = Neg(res.uflx_rho)
        /\ mres.qint_iu = Neg(res.qint_iu)
        /\ mres.uflx_v = Neg(res.uflx_v)
        /\ mres.uflx_w = Neg(res.uflx_w)

Trivial(f) ==
    /\ f.rl = f.rr /\ f.ul = f.ur /\ f.vl = f.vr /\ f.v2l = f.v2r
    /\ f.pl = f.pr /\ f.spl = f.spr
    /\ ~IsZero(f.ul) /\ f.bc = 1

\* C5: identical moving states on both sides pass through the solver: u* =
\* u_L, P* = P_L, the mass flux is rho u, the normal momentum flux is
\* rho u^2 + P, and the interface velocities and pressure are the common ones.
C5_TrivialState ==
    (Called /\ Trivial(prob)) =>
        /\ res.ustar = prob.ul
        /\ res.pstar = prob.pl
        /\ res.uflx_rho = Mul(prob.rl, prob.ul)
        /\ res.uflx_u = Add(Mul(prob.rl, Mul(prob.ul, prob.ul)), prob.pl)
        /\ res.qint_iu = prob.ul
        /\ res.qint_iv1 = prob.vl
        /\ res.qint_iv2 = prob.v2l
        /\ res.qint_gdpres = prob.pl

\* a supersonic trivial state moving to the left, no fan width (cav = 0)
C5_Witness ==
    /\ Called /\ Trivial(prob) /\ Less(prob.ul, Zero) /\ IsZero(prob.cav)
    /\ Less(res.spout, Zero)
    /\ res.uflx_rho = Mul(prob.rl, prob.ul)
    /\ res.uflx_u = Add(Mul(prob.rl, Mul(prob.ul, prob.ul)), prob.pl)

Contact(f) ==
    /\ IsZero(f.ul) /\ IsZero(f.ur) /\ f.pl = f.pr
    /\ f.vl = f.vr /\ f.v2l = f.v2r

\* C6: two states at rest at one pressure, differing in density and
\* composition only, give u* = 0, no mass or energy flux, and the common
\* pressure at the interface.
C6_StationaryContact ==
    (Called /\ Contact(prob)) =>
        /\ IsZero(res.ustar)
        /\ IsZero(res.qint_iu)
        /\ IsZero(res.uflx_rho)
        /\ IsZero(res.uflx_eden)
        /\ IsZero(res.uflx_eint)
        /\ res.qint_gdpres = prob.pl

C6_Witness ==
    /\ Called /\ Contact(prob) /\ prob.rl # prob.rr /\ prob.spl # prob.spr
    /\ IsZero(res.uflx_rho) /\ IsZero(res.uflx_eden)
    /\ res.qint_gdpres = prob.pl

\* C7: each star-state partial density is max(0, rspo + drho * Y_o): never
\* negative, and zero whenever drho * Y_o < -rspo.
C7_SpeciesClamp ==
    Called =>
        \A n \in Species :
            LET spon == Div(res.rspo[n], res.ro)
                step == Mul(res.drho, spon)
            IN  /\ ~Less(res.rspstar[n], Zero)
                /\ Less(step, Neg(res.rspo[n])) => IsZero(res.rspstar[n])
                /\ ~Less(step, Neg(res.rspo[n])) =>
                       res.rspstar[n] = Add(res.rspo[n], step)

\* a species whose partial density the correction would make negative
C7_Witness ==
    /\ Called
    /\ \E n \in Species :
          /\ Less(Mul(res.drho, Div(res.rspo[n], res.ro)), Neg(res.rspo[n]))
          /\ IsZero(res.rspstar[n])

(***************************************************************************)
(* Properties of the launch.                                               *)
(***************************************************************************)
\* the species slot n of the flux field of a call that has returned
SpeciesSlot(call, n) == Load(mem, PairArrays(call[1]).flx, call[2], UFS + n)
\* the URHO slot of the flux field of the call
MassSlot(call) == Load(mem, PairArrays(call[1]).flx, call[2], URHO)
LeftFraction(call, n) == Load(mem, PairArrays(call[1]).ql, call[2], QFS + n)
RightFraction(call, n) == Load(mem, PairArrays(call[1]).qr, call[2], QFS + n)

\* C1: after pc_cmpflx has run for a cell, each species slot of the flux
\* field holds F_rho Y_L[n] if the star velocity riemann returned is
\* positive, F_rho Y_R[n] if it is negative and F_rho (Y_L[n] + Y_R[n]) / 2
\* if it is zero, F_rho being the URHO slot; where the species flux riemann
\* computed differs from that value it is not what the slot holds.
C1_PassiveUpwind ==
    \A call \in hpc : \A n \in Species :
        /\ Greater(res[call].ustar, Zero) =>
               SpeciesSlot(call, n) = Mul(MassSlot(call), LeftFraction(call, n))
        /\ Less(res[call].ustar, Zero) =>
               SpeciesSlot(call, n) = Mul(MassSlot(call), RightFraction(call, n))
        /\ FEq(res[call].ustar, Zero) =>
               SpeciesSlot(call, n) =
                   Div(Mul(MassSlot(call),
                           Add(LeftFraction(call, n), RightFraction(call, n))),
                       Lit(2, 0))
        /\ \/ SpeciesSlot(call, n) # res[call].uflx_rhoY[n]
           \/ res[call].uflx_rhoY[n] \in
                  {Mul(MassSlot(call), LeftFraction(call, n)),
                   Mul(MassSlot(call), RightFraction(call, n)),
                   Div(Mul(MassSlot(call),
                           Add(LeftFraction(call, n), RightFraction(call, n))),
                       Lit(2, 0))}

\* a call with a positive star velocity and a mass flux, whose species slot
\* holds the upwind value and not the species flux riemann computed
C1_Witness ==
    \E call \in hpc : \E n \in Species :
        /\ Greater(res[call].ustar, Zero)
        /\ ~IsZero(MassSlot(call))
        /\ LeftFraction(call, n) # RightFraction(call, n)
        /\ SpeciesSlot(call, n) = Mul(MassSlot(call), LeftFraction(call, n))
        /\ SpeciesSlot(call, n) # res[call].uflx_rhoY[n]

\* the face problem of a call is admissible
AdmissibleCall(call) == Admissible(LoadFace(mem, call[1], call[2]))

\* C2: for an admissible face the species slots of the flux field sum to
\* its URHO slot once pc_cmpflx has run, whatever the sign of the star
\* velocity.
C2_SpeciesSum ==
    \A call \in hpc :
        AdmissibleCall(call) =>
            SumSpecies([k \in Species |-> SpeciesSlot(call, k)]) = MassSlot(call)

\* admissible calls of each of the three cases, each with a mass flux
C2_Witness ==
    /\ \E call \in hpc :
          /\ AdmissibleCall(call) /\ Greater(res[call].ustar, Zero)
          /\ ~IsZero(MassSlot(call))
          /\ SumSpecies([k \in Species |-> SpeciesSlot(call, k)]) = MassSlot(call)
    /\ \E call \in hpc :
          /\ AdmissibleCall(call) /\ Less(res[call].ustar, Zero)
          /\ ~IsZero(MassSlot(call))
          /\ SumSpecies([k \in Species |-> SpeciesSlot(call, k)]) = MassSlot(call)
    /\ \E call \in hpc :
          /\ AdmissibleCall(call) /\ FEq(res[call].ustar, Zero)
          /\ ~IsZero(MassSlot(call))
          /\ SumSpecies([k \in Species |-> SpeciesSlot(call, k)]) = MassSlot(call)

\* the threads and pool addresses of logged elements <<thread, field, offset>>
LogAddrs(log) == {<<e[1], Addr(fm, e[2], e[3])>> : e \in log}

\* C9: under every interleaving, no element of flxy, qxy, flxz or qxz is
\* written by two threads, none is read by a thread other than the one that
\* writes it, and threads at different cells write disjoint elements.
C9_NoRace ==
    /\ LET W == LogAddrs(wlog)
           R == LogAddrs(rlog)
       IN  /\ \A w1 \in W : \A w2 \in W : w1[2] = w2[2] => w1[1] = w2[1]
           /\ \A r \in R : \A w \in W : r[2] = w[2] => r[1] = w[1]
    /\ \A w \in wlog : w[2] \in OutputArrays /\ InBounds(w[2], w[3])
    /\ \A t1 \in DOMAIN th : \A t2 \in DOMAIN th :
          (t1 # t2 /\ th[t1].pc # "loop" /\ th[t2].pc # "loop"
             /\ th[t1].icell < md.ncells /\ th[t2].icell < md.ncells) =>
              th[t1].cell # th[t2].cell

\* threads of two blocks have each written all four output fields and ended
C9_Witness ==
    /\ \A t \in DOMAIN th : th[t].pc = "done"
    /\ \E t1 \in DOMAIN th : \E t2 \in DOMAIN th :
          /\ t1 \div nthreads # t2 \div nthreads
          /\ \A a \in OutputArrays :
                /\ \E w \in wlog : w[1] = t1 /\ w[2] = a
                /\ \E w \in wlog : w[1] = t2 /\ w[2] = a

Done == \A t \in DOMAIN th : th[t].pc = "done"
BothCalls(icell) == <<<<icell, "xy">>, <<icell, "xz">>>>

\* C11: every thread calls pc_cmpflx for its own index only, first on the xy
\* fields and then on the xz fields; a thread whose index is not below
\* ncells makes no call; and when the launch has ended every icell in
\* [0, ncells) has had both calls from exactly one thread.
C11_ExactlyOnce ==
    /\ \A t \in DOMAIN th :
          /\ \E n \in 0..2 : th[t].calls = SubSeq(BothCalls(t), 1, n)
          /\ t >= md.ncells => th[t].calls = <<>>
    /\ Done =>
          /\ \A icell \in 0..(md.ncells - 1) :
                Cardinality({t \in DOMAIN th : th[t].calls = BothCalls(icell)}) = 1
          /\ \A icell \in 0..(md.ncells - 1) : \A t \in DOMAIN th :
                (\E x \in 1..Len(th[t].calls) : th[t].calls[x][1] = icell) =>
                    th[t].calls = BothCalls(icell)

\* a launch of two blocks has ended: the threads below ncells have made both
\* calls and the last thread of the second block none
C11_Witness ==
    /\ Done
    /\ nblocks(md.ncells) > 1
    /\ \E t \in DOMAIN th : t >= md.ncells /\ th[t].calls = <<>>
    /\ \A t \in DOMAIN th : t < md.ncells => th[t].calls = BothCalls(t)

\* the slots of (normal, transverse 1, transverse 2) for each direction, as
\* the interface description gives them
PrimitiveSlots == <<<<QU, QV, QW>>, <<QV, QU, QW>>, <<QW, QU, QV>>>>
MomentumSlots == <<<<UMX, UMY, UMZ>>, <<UMY, UMX, UMZ>>, <<UMZ, UMX, UMY>>>>
VelocitySlots == <<<<GDU, GDV, GDW>>, <<GDV, GDU, GDW>>, <<GDW, GDU, GDV>>>>
CallLoad(call, a, n) == Load(mem, PairArrays(call[1])[a], call[2], n)

\* C12: for each direction riemann receives the (normal, transverse 1,
\* transverse 2) velocities from the slots (u,v,w), (v,u,w), (w,u,v); the
\* normal momentum flux uflx_rho * qint_iu + qint_gdpres lands in the momentum
\* slot of the normal direction and the two tangential fluxes in the other
\* two in the same order, and so do the interface velocities; the three
\* momentum slots and the three velocity slots written are all of them.
C12_DirectionPermutation ==
    \A call \in DOMAIN res :
        LET Q == PrimitiveSlots[md.dir + 1]
            U == MomentumSlots[md.dir + 1]
            G == VelocitySlots[md.dir + 1]
            r == res[call]
        IN  /\ r.ul = CallLoad(call, "ql", Q[1]) /\ r.ur = CallLoad(call, "qr", Q[1])
            /\ r.vl = CallLoad(call, "ql", Q[2]) /\ r.vr = CallLoad(call, "qr", Q[2])
            /\ r.v2l = CallLoad(call, "ql", Q[3]) /\ r.v2r = CallLoad(call, "qr", Q[3])
            /\ CallLoad(call, "flx", U[1]) = Add(Mul(r.uflx_rho, r.qint_iu), r.qint_gdpres)
            /\ CallLoad(call, "flx", U[2]) = r.uflx_v
            /\ CallLoad(call, "flx", U[3]) = r.uflx_w
            /\ CallLoad(call, "q", G[1]) = r.qint_iu
            /\ CallLoad(call, "q", G[2]) = r.qint_iv1
            /\ CallLoad(call, "q", G[3]) = r.qint_iv2
            /\ {n \in {UMX, UMY, UMZ} :
                   \E w \in wlog : w[2] = PairArrays(call[1]).flx
                       /\ w[3] = Offset(fm[w[2]], call[2][1], call[2][2], call[2][3], n)}
                = {UMX, UMY, UMZ}
            /\ {n \in {GDU, GDV, GDW} :
                   \E w \in wlog : w[2] = PairArrays(call[1]).q
                       /\ w[3] = Offset(fm[w[2]], call[2][1], call[2][2], call[2][3], n)}
                = {GDU, GDV, GDW}

\* a call in direction 2 whose three momentum fluxes differ: the w slot
\* holds the normal flux, the u and v slots the tangential ones
C12_Witness ==
    /\ md.dir = 2
    /\ \E call \in DOMAIN res :
          /\ Cardinality({res[call].uflx_u, res[call].uflx_v, res[call].uflx_w}) = 3
          /\ res[call].ul = CallLoad(call, "ql", QW)
          /\ res[call].vl # res[call].v2l
          /\ CallLoad(call, "flx", UMZ) = res[call].uflx_u
          /\ CallLoad(call, "flx", UMX) = res[call].uflx_v
          /\ CallLoad(call, "flx", UMY) = res[call].uflx_w

\* the components of the flux field a call of pc_cmpflx touches
FluxSlots == {URHO, UMX, UMY, UMZ, UEDEN, UEINT}
SpeciesSlots == {UFS + n : n \in Species}
\* the stores made to component n of a field of a call
StoresTo(call, a, n) ==
    {w \in wlog : /\ w[2] = PairArrays(call[1])[a]
                  /\ w[3] = Offset(fm[w[2]], call[2][1], call[2][2], call[2][3], n)}

\* C13: a call of pc_cmpflx stores once to each slot of the flux field it
\* touches, URHO, the momentum slots, UEDEN and UEINT in riemann and each
\* species slot in the species loop, never twice, and no value stored to the
\* flux field is computed from the element it replaces.
C13_WriteOnce ==
    /\ \A call \in DOMAIN res :
          /\ \A n \in FluxSlots : Cardinality(StoresTo(call, "flx", n)) = 1
          /\ \A n \in SpeciesSlots :
                Cardinality(StoresTo(call, "flx", n)) = (IF call \in hpc THEN 1 ELSE 0)
    /\ \A w \in wlog : w[2] \in {"flxy", "flxz"} => ~w[5]

\* a call that has returned: one store to each of its flux slots, while the
\* normal interface velocity in q was stored four times, thrice from itself
C13_Witness ==
    \E call \in hpc :
        /\ Cardinality(UNION {StoresTo(call, "flx", n) : n \in FluxSlots \cup SpeciesSlots})
               = 6 + NUM_SPECIES
        /\ Cardinality(StoresTo(call, "q", Components(md.dir).GU)) = 4
        /\ Cardinality({w \in StoresTo(call, "q", Components(md.dir).GU) : w[5]}) = 3

\* what a call of pc_cmpflx takes from the data: the left and right states
\* at its cell and the sound speed of qaux there and one cell back along dir
LocalInputs(call) == LoadFace(mem, call[1], call[2])
\* the components of q that a call writes
VelocityAndPressureSlots == {GDU, GDV, GDW, GDPRES, GDGAME}
\* what a call of pc_cmpflx has written
Outputs(call) ==
    [flx |-> [n \in FluxSlots \cup SpeciesSlots |-> CallLoad(call, "flx", n)],
     q |-> [n \in VelocityAndPressureSlots |-> CallLoad(call, "q", n)]]

\* C14: under every interleaving, two calls of pc_cmpflx that have returned
\* and took the same left and right states and the same two sound speeds
\* have written the same values, whatever the other cells hold, whatever
\* the output fields held before and whichever thread ran first.
C14_Locality ==
    \A c1 \in hpc : \A c2 \in hpc :
        LocalInputs(c1) = LocalInputs(c2) => Outputs(c1) = Outputs(c2)

\* two calls at different cells with the same inputs, whose output fields
\* held different values before (as the unwritten GDRHO still shows), have
\* written the same nonzero mass flux while a third call wrote another
C14_Witness ==
    \E c1 \in hpc : \E c2 \in hpc : \E c3 \in hpc :
        /\ c1[2] # c2[2]
        /\ LocalInputs(c1) = LocalInputs(c2)
        /\ CallLoad(c1, "q", GDRHO) # CallLoad(c2, "q", GDRHO)
        /\ Outputs(c1) = Outputs(c2)
        /\ ~IsZero(CallLoad(c1, "flx", URHO))
        /\ LocalInputs(c3) # LocalInputs(c1)
        /\ Outputs(c3) # Outputs(c1)

InputArrays == Arrays \ OutputArrays
\* the pool address of the first element of each input field
InputBase == [a \in InputArrays |-> Addr(fm, a, 0)]
\* the pool addresses stored to by the calls on the fields of a pair
StoredBy(pair) == {Addr(fm, w[2], w[3]) : w \in {x \in wlog : x[4][1] = pair}}

\* C15: the launch leaves qmxy, qpxy, qmxz, qpxz and qaux as they were read;
\* the call on the xy fields stores to flxy and qxy only and the call on the
\* xz fields to flxz and qxz only, no element being stored to by both; both
\* calls are given the same dir, qaux, bclo, bchi, domlo and domhi.
C15_Frame ==
    /\ \E d \in 0..(NumData - 1) : \A a \in InputArrays :
          mem[a] = [o \in 0..(fm[a].size - 1) |-> DataValue(md, d, a, TupleAt(fm[a], o))]
    /\ \A w \in wlog :
          w[2] \in (IF w[4][1] = "xy" THEN {"flxy", "qxy"} ELSE {"flxz", "qxz"})
    /\ LET base == InputBase
       IN  \A x \in StoredBy("xy") \cup StoredBy("xz") : \A a \in InputArrays :
               x < base[a] \/ x >= base[a] + fm[a].size
    /\ StoredBy("xy") \cap StoredBy("xz") = {}
    /\ \A p \in DOMAIN PassedOn :
          PairArrays("xy")[p] = PassedOn[p] /\ PairArrays("xz")[p] = PassedOn[p]

\* the launch has ended with stores of both calls in their two fields
C15_Witness ==
    /\ Done
    /\ \A a \in OutputArrays : \E w \in wlog : w[2] = a
    /\ StoredBy("xy") # {} /\ StoredBy("xz") # {}
    /\ \E w \in wlog : w[4][1] = "xz" /\ w[2] = "flxz" /\ w[4][2] = "passive"

\* the index of the cell of a call along the direction of the run
AlongDir(call) == call[2][md.dir + 1]

\* C16: in every call of pc_cmpflx, also at a cell whose index along dir is
\* domlo or domhi + 1 and whatever bclo and bchi are, riemann receives the
\* left and right states as loaded and bc_test_val = 1, and what the call
\* stores through riemann's reference parameters is what riemann returned
\* for them: nothing of bclo, bchi, domlo, domhi enters the outputs.
C16_BoundaryPassThrough ==
    \A call \in DOMAIN res :
        /\ \A p \in DOMAIN LoadStates(mem, call[1], call[2]) :
              res[call][p] = LoadStates(mem, call[1], call[2])[p]
        /\ res[call].bc = 1
        /\ \A p \in DOMAIN RiemannBinding(call[1]) :
              Load(mem, RiemannBinding(call[1])[p][1], call[2], RiemannBinding(call[1])[p][2])
                  = res[call][p]

\* calls at idx = domlo and at idx = domhi + 1 of a run with boundary types
\* at both ends, whose states a reflection would have changed
C16_Witness ==
    /\ md.bclo # 0 /\ md.bchi # 0
    /\ \E c1 \in DOMAIN res : \E c2 \in DOMAIN res :
          /\ AlongDir(c1) = md.domlo /\ AlongDir(c2) = md.domhi + 1
          /\ res[c1].ul # Neg(res[c1].ur) /\ res[c1].rl # res[c1].rr
          /\ res[c2].ur # Neg(res[c2].ul)
          /\ res[c1].ul = LoadStates(mem, c1[1], c1[2]).ul
          /\ res[c2].ur = LoadStates(mem, c2[1], c2[2]).ur

\* C17: the nine arrays lie in the pool in the order qmxy, qpxy, flxy, qxy,
\* qmxz, qpxz, flxz, qxz, qaux, the first at element offset 0 and each
\* further one at the element offset of the one before it plus that one's
\* size in doubles, so that consecutive arrays are contiguous.
C17_Contiguous ==
    /\ ArrayOrder = <<"qmxy", "qpxy", "flxy", "qxy", "qmxz", "qpxz", "flxz", "qxz", "qaux">>
    /\ Addr(fm, ArrayOrder[1], 0) = 0
    /\ \A x \in 2..Len(ArrayOrder) :
          Addr(fm, ArrayOrder[x], 0)
              = Addr(fm, ArrayOrder[x - 1], 0) + fm[ArrayOrder[x - 1]].size

\* the lines printed for single elements
ElementLines == SelectSeq(chk.out, LAMBDA l : l[1] = "i")

\* C18: checkResults counts element idx exactly when |a-b| exceeds
\* max(rtol*max(|a|,|b|), atol) or a or b is not finite; the count it
\* reports is the number of such elements; it prints the line of an element
\* for the first ten of them only, in index order; and it reports nothing
\* for an array without any.
C18_ComparisonPolicy ==
    /\ chk.count = Cardinality(chk.mis)
    /\ chk.failure = (chk.mis # {})
    /\ Len(ElementLines) = IF chk.count < 10 THEN chk.count ELSE 10
    /\ \A x \in 1..Len(ElementLines) :
          /\ ElementLines[x][2] \in chk.mis
          /\ Cardinality({m \in chk.mis : m < ElementLines[x][2]}) = x - 1
    /\ chk.pc = "loop" => chk.out = ElementLines
    /\ chk.pc = "done" =>
          IF chk.mis = {} THEN chk.out = <<>>
          ELSE chk.out = Append(ElementLines, <<"has", Cardinality(chk.mis)>>)

\* an array with more than ten mismatches, not all of them at the front,
\* whose report is complete
C18_Witness ==
    /\ chk.pc = "done"
    /\ Cardinality(chk.mis) > 10
    /\ Len(chk.out) = 11
    /\ \E m \in 0..9 : m \notin chk.mis
    /\ chk.size - 1 \in chk.mis /\ chk.size - 1 \notin {l[2] : l \in {ElementLines[x] : x \in 1..10}}

Exited == host.exit # "none"

\* C19 as stated: the program exits 0 on every run in which all device
\* calls succeed, and exits nonzero only when a device call fails.
C19_AsStated == Exited => (host.exit = "zero" <=> ~host.devfail)

\* C19: on a run whose metadata, field, reference and output files can all
\* be opened and are complete, the program exits 0 exactly when all device
\* calls succeed, whatever checkBadValues and checkResults print, and then
\* all four outputs have been written and checked; on every run a failed
\* device call gives a nonzero exit status, and an exit status of 0 means
\* that no device call failed.
C19_ExitStatus ==
    Exited =>
        /\ host.devfail => host.exit = "nonzero"
        /\ host.files.kind = "ok" => (host.exit = "zero" <=> ~host.devfail)
        /\ host.exit = "zero" =>
              /\ host.written = Len(OutputOrder) /\ host.checked = Len(OutputOrder)
              /\ host.bad <=> "bad values" \in host.log
              /\ host.differ <=> "NOT close" \in host.log

\* a complete run that printed non-finite values and tolerance failures and
\* exited 0
C19_Witness ==
    /\ host.exit = "zero" /\ host.files.kind = "ok"
    /\ {"bad values", "NOT close"} \subseteq host.log
    /\ host.checked = Len(OutputOrder)

\* C20: once main has met a metadata file that is missing or has too few
\* fields, or a binary file that is missing or too short, it has logged the
\* error and ended with a nonzero status, and it has made no copy to the
\* device and no launch with a value that no file gave it.
C20_InputErrorsDetected ==
    /\ ~host.used
    /\ host.met => host.pc = "exit" /\ host.exit = "nonzero" /\ "input error" \in host.log

\* C21: the pool is allocated once, before any field is loaded, and never
\* again; every copy, scan, launch and read-back is made while the pool is
\* allocated and not yet freed; a run that returns from main has freed the
\* pool once, and nothing follows the free.
C21_PoolLifecycle ==
    /\ host.allocs <= 1 /\ host.frees <= 1
    /\ ~host.outside
    /\ (host.copied # {} \/ host.launched \/ host.written > 0 \/ host.checked > 0)
          => host.allocs = 1
    /\ host.pc \in {"read", "badin", "sync1", "launch", "sync2", "badout", "write",
                    "check", "free"} => host.allocs = 1 /\ host.frees = 0
    /\ host.exit = "zero" => host.allocs = 1 /\ host.frees = 1
    /\ host.frees = 1 => host.pc = "exit"

\* a run that loaded the nine fields, launched, read back and freed the pool
C21_Witness ==
    /\ host.exit = "zero" /\ host.frees = 1 /\ host.allocs = 1
    /\ host.copied = Arrays /\ host.launched /\ host.checked = Len(OutputOrder)

\* the host size of the buffer of argument i, and the bytes argument i
\* draws from the generator
HostSize(r, i) ==
    IF i \in DOMAIN r.input.buffer_sizes THEN r.input.buffer_sizes[i] ELSE r.buffer_size

DrawsOf(r, i) ==
    IF r.args[i].kind = "global_buffer" THEN HostSize(r, i)
    ELSE IF r.args[i].kind \in {"by_value", "value"} /\ i \notin DOMAIN r.input.values
    THEN r.args[i].size
    ELSE 0

RECURSIVE DrawsBefore(_, _)
DrawsBefore(r, i) == IF i = 1 THEN 0 ELSE DrawsBefore(r, i - 1) + DrawsOf(r, i - 1)

\* the argument of buffer x: the x-th global_buffer of args
ArgOfBuffer(r, x) ==
    CHOOSE i \in 1..Len(r.args) :
        /\ r.args[i].kind = "global_buffer"
        /\ Cardinality({j \in 1..i : r.args[j].kind = "global_buffer"}) = x

\* C22: at the launch of kernel A and again at the launch of kernel B every
\* device buffer holds its initial bytes buf.init, so that B sees nothing A
\* wrote; both launches get the same parameter bytes and dimensions; and the
\* initial bytes are those the seed and the input spec determine.
C22_IdenticalInputs ==
    /\ \A x \in 1..Len(run.buffers) :
          run.buffers[x].init =
              fill_random(HostSize(run, ArgOfBuffer(run, x)), Seed(run),
                          DrawsBefore(run, ArgOfBuffer(run, x)))
    /\ run.ran_a => \A x \in 1..Len(run.buffers) : run.seen_a[x] = run.buffers[x].init
    /\ run.ran_b =>
          /\ \A x \in 1..Len(run.buffers) : run.seen_b[x] = run.buffers[x].init
          /\ run.seen_b = run.seen_a
          /\ run.par_b = run.par_a

RunnerExited == run.pc = "exit"
OutputsEqual == \A x \in 1..Len(run.buffers) : run.buffers[x].out_a = run.buffers[x].out_b
InputUnreadable == run.input.given /\ ~run.input.readable

\* the verdict on the device work: exit 0 exactly when both modules loaded,
\* both kernels ran with all their copies, and every buffer read back the
\* same bytes after A and after B; a difference prints "output mismatch"
\* and exits 1
DeviceVerdict ==
    /\ run.exit = 0 <=> (run.loaded /\ run.ran_a /\ run.ran_b /\ OutputsEqual)
    /\ (run.ran_b /\ ~OutputsEqual) => (run.exit = 1 /\ "output mismatch" \in run.log)

\* C23 as stated: the verdict on the device work, and exit status 2 for
\* missing required options, an unreadable kernel spec or an unreadable
\* input spec.
C23_AsStated ==
    RunnerExited =>
        /\ DeviceVerdict
        /\ (~run.complete \/ ~run.specok \/ InputUnreadable) => run.exit = 2

\* C23: on a run whose option values and hex overrides std::stoul accepts,
\* the verdict on the device work holds; missing required options and an
\* unreadable kernel spec exit 2; an unreadable input spec exits 2 if both
\* modules loaded and both functions were found, and otherwise the run has
\* exited 1 with the hipModuleLoad or hipModuleGetFunction message.
C23_Verdict ==
    (RunnerExited /\ ~run.badsize) =>
        /\ run.exit # Aborted => DeviceVerdict
        /\ run.exit = Aborted => (run.input.given /\ run.input.badhex)
        /\ (~run.complete \/ ~run.specok) => run.exit = 2
        /\ (run.complete /\ run.specok /\ InputUnreadable) =>
              \/ run.exit = 2 /\ run.loaded /\ "failed to read input spec" \in run.log
              \/ /\ run.exit = 1
                 /\ run.log \in {{"hipModuleLoad failed"}, {"hipModuleGetFunction failed"}}

\* a run of two buffers that ended with a mismatch
C23_Witness ==
    /\ RunnerExited /\ run.exit = 1
    /\ run.ran_b /\ ~OutputsEqual /\ "output mismatch" \in run.log /\ Len(run.buffers) > 1

\* C30: the device allocation of every global buffer holds at least the
\* buf.size bytes that the copies to and from the device move.
C30_BufferCapacity ==
    \A x \in 1..Len(run.buffers) : run.buffers[x].alloc >= run.buffers[x].size

PassiveDone == Called /\ "passive" \in hpc
MeanOf(a, b) == Mul(Half, Add(a, b))

\* the 'o' state, the transverse velocities and the passive species fluxes
\* are those of the left state, of the right state, or of the mean of both
UpwindLeft ==
    /\ \A n \in Species :
          /\ res.rspo[n] = Mul(prob.rl, prob.spl[n])
          /\ pflx[n] = Mul(res.uflx_rho, prob.spl[n])
    /\ res.uo = prob.ul /\ res.po = prob.pl
    /\ res.qint_iv1 = prob.vl /\ res.qint_iv2 = prob.v2l
UpwindRight ==
    /\ \A n \in Species :
          /\ res.rspo[n] = Mul(prob.rr, prob.spr[n])
          /\ pflx[n] = Mul(res.uflx_rho, prob.spr[n])
    /\ res.uo = prob.ur /\ res.po = prob.pr
    /\ res.qint_iv1 = prob.vr /\ res.qint_iv2 = prob.v2r
UpwindMean ==
    /\ \A n \in Species :
          /\ res.rspo[n] = MeanOf(Mul(prob.rl, prob.spl[n]), Mul(prob.rr, prob.spr[n]))
          /\ pflx[n] = Mul(res.uflx_rho, MeanOf(prob.spl[n], prob.spr[n]))
    /\ res.uo = MeanOf(prob.ul, prob.ur) /\ res.po = MeanOf(prob.pl, prob.pr)
    /\ res.qint_iv1 = MeanOf(prob.vl, prob.vr)
    /\ res.qint_iv2 = MeanOf(prob.v2l, prob.v2r)

\* C24: the 'o' state (rhoY_o, u_o, P_o), the interface transverse velocities
\* and the passive species fluxes come from one side: all from L when the
\* filtered star velocity is positive, all from R when it is negative, all
\* from the arithmetic mean of L and R when it is zero, whether computed as
\* zero or zeroed by the sonic filter.
C24_ConsistentUpwind ==
    PassiveDone =>
        /\ Greater(res.ustar, Zero) => UpwindLeft
        /\ Less(res.ustar, Zero) => UpwindRight
        /\ IsZero(res.ustar) => UpwindMean
        /\ (res.filtered \/ IsZero(res.ustar0)) => IsZero(res.ustar)

\* a star velocity that was not zero until the sonic filter zeroed it, at a
\* face whose two sides differ in density, velocities and pressure
C24_Witness ==
    /\ PassiveDone
    /\ res.filtered /\ ~IsZero(res.ustar0) /\ IsZero(res.ustar)
    /\ prob.rl # prob.rr /\ prob.vl # prob.vr /\ prob.pl # prob.pr
    /\ UpwindMean /\ ~UpwindLeft /\ ~UpwindRight

\* s_out = c_o - sgn u_o, s_in = c* - sgn u*, s_shock their mean
RawOut == Sub(res.co, Mul(CopySign1(res.ustar), res.uo))
RawIn == Sub(res.cstar, Mul(CopySign1(res.ustar), res.ustar))
RawShock == Mul(Half, Add(RawIn, RawOut))
FanQuotient == Mul(Add(One, Div(Add(res.spout, res.spin), res.scr)), Half)
Clamp(lo, hi, x) == IF Less(x, lo) THEN lo ELSE IF Greater(x, hi) THEN hi ELSE x
Collapsed == GreaterEq(res.pstar, res.po)

\* C25: when P* >= P_o both s_in and s_out are s_shock = (s_in + s_out) / 2;
\* scr is s_out - s_in unless |s_out - s_in| is below very_small_num, and
\* then small_num c_avg; frac is (1 + (s_out + s_in) / scr) / 2 clamped to
\* [0, 1], and lies in [0, 1] on every input, a collapsed fan and c_avg = 0
\* included.
C25_FanFraction ==
    Called =>
        /\ Collapsed => (res.spin = RawShock /\ res.spout = RawShock)
        /\ res.scr = IF Less(FAbs(Sub(res.spout, res.spin)), very_small_num)
                     THEN Mul(small_num, prob.cav)
                     ELSE Sub(res.spout, res.spin)
        /\ ~IsNaN(FanQuotient) => res.frac = Clamp(Zero, One, FanQuotient)
        /\ GreaterEq(res.frac, Zero) /\ LessEq(res.frac, One)

\* a collapsed fan at c_avg = 0 whose shock stands on the face: scr and
\* s_out + s_in are both zero and their quotient is not a number
C25_Witness ==
    /\ Called /\ Collapsed /\ IsZero(prob.cav)
    /\ IsZero(res.scr) /\ IsZero(res.spout)
    /\ IsNaN(FanQuotient)
    /\ res.frac = One

FanIn == GreaterEq(res.spin, Zero)
FanOut == Less(res.spout, Zero)
Signed(x) == Mul(Lit(prob.bc, 0), x)
Blend(star, o) == Add(Mul(res.frac, star), Mul(Sub(One, res.frac), o))

\* the state written out is the star state, the 'o' state, or their blend
GodunovStar ==
    /\ \A n \in Species : res.rspgd[n] = res.rspstar[n]
    /\ res.qint_iu = Signed(res.ustar)
    /\ res.qint_gdpres = res.pstar
GodunovO ==
    /\ \A n \in Species : res.rspgd[n] = res.rspo[n]
    /\ res.qint_iu = Signed(res.uo)
    /\ res.qint_gdpres = res.po
GodunovBlend ==
    /\ \A n \in Species : res.rspgd[n] = Blend(res.rspstar[n], res.rspo[n])
    /\ res.qint_iu = Signed(Blend(res.ustar, res.uo))
    /\ res.qint_gdpres = Blend(res.pstar, res.po)

\* C26: the Godunov state (every species partial density, u_gd and P_gd
\* together) is the star state when s_in >= 0, the 'o' state when s_in < 0
\* and s_out < 0, and the frac-interpolation of the two otherwise; when
\* s_out < 0 and s_in >= 0 both hold the star state wins; rho_gd is the sum
\* of the species partial densities selected.
C26_FanOverrides ==
    Called =>
        /\ FanIn => GodunovStar
        /\ (Less(res.spin, Zero) /\ FanOut) => GodunovO
        /\ (Less(res.spin, Zero) /\ GreaterEq(res.spout, Zero)) => GodunovBlend
        /\ res.rgd = SumSpecies(res.rspgd)

\* a fan that lies to the left of the face by s_out and to its right by
\* s_in: the star state, which differs from the 'o' state, is written out
C26_Witness ==
    /\ Called /\ FanIn /\ FanOut
    /\ GodunovStar /\ ~GodunovO
    /\ res.rgd = SumSpecies(res.rspstar)

BoundaryCalled == Called /\ "boundary" \in hpc
UniformFlow(f) ==
    /\ f.rl = One /\ f.rr = One /\ f.ul = Lit(5, 2) /\ f.ur = Lit(5, 2)
    /\ IsZero(f.vl) /\ IsZero(f.vr) /\ IsZero(f.v2l) /\ IsZero(f.v2r)
    /\ f.pl = Lit(1, 6) /\ f.pr = Lit(1, 6)

\* C27: on the same L/R inputs, bc_sign = -1 instead of +1 negates the
\* interface normal velocity, the mass flux, the two tangential momentum
\* fluxes, the total-energy flux and the internal-energy flux, and leaves the
\* normal momentum flux, the interface pressure, gamma_eff and the returned
\* ustar as they are; for the uniform flow (1, 500, 0, 0, 1e6) it gives
\* F_rho = -500 and zero tangential fluxes.
C27_BoundarySign ==
    BoundaryCalled =>
        /\ prob.bc = 1
        /\ bres.qint_iu = Neg(res.qint_iu)
        /\ bres.uflx_rho = Neg(res.uflx_rho)
        /\ bres.uflx_v = Neg(res.uflx_v)
        /\ bres.uflx_w = Neg(res.uflx_w)
        /\ bres.uflx_eden = Neg(res.uflx_eden)
        /\ bres.uflx_eint = Neg(res.uflx_eint)
        /\ bres.uflx_u = res.uflx_u
        /\ bres.qint_gdpres = res.qint_gdpres
        /\ bres.qint_gdgame = res.qint_gdgame
        /\ bres.ustar = res.ustar
        /\ UniformFlow(prob) =>
              /\ bres.uflx_rho = Lit(-5, 2)
              /\ IsZero(bres.uflx_v) /\ IsZero(bres.uflx_w)

\* the uniform flow solved with both signs: mass fluxes 500 and -500
C27_Witness ==
    /\ BoundaryCalled /\ UniformFlow(prob)
    /\ res.uflx_rho = Lit(5, 2) /\ bres.uflx_rho = Lit(-5, 2)
    /\ bres.qint_iu = Lit(-5, 2) /\ bres.ustar = Lit(5, 2)
    /\ bres.uflx_u = res.uflx_u

\* a strict interpolation of the star and 'o' states
StrictBlend ==
    /\ Greater(res.frac, Zero) /\ Less(res.frac, One)
    /\ GodunovBlend /\ ~GodunovStar /\ ~GodunovO

\* C28: whenever P* >= P_o (so that s_in = s_out = s_shock) the Godunov
\* state written out is exactly the 'o' state if s_shock < 0 and exactly the
\* star state if s_shock >= 0, never a strict interpolation of the two,
\* whatever frac and c_avg are.
C28_CollapsedFanPure ==
    (Called /\ Collapsed) =>
        /\ res.spin = RawShock /\ res.spout = RawShock
        /\ Less(RawShock, Zero) => GodunovO
        /\ GreaterEq(RawShock, Zero) => GodunovStar
        /\ ~StrictBlend

\* a collapsed fan with frac strictly between 0 and 1 and a star state that
\* differs from the 'o' state: the star state is written out, not their blend
C28_Witness ==
    /\ Called /\ Collapsed
    /\ Greater(res.frac, Zero) /\ Less(res.frac, One)
    /\ GreaterEq(RawShock, Zero)
    /\ GodunovStar /\ ~GodunovO /\ ~GodunovBlend

\* the elements a call of pc_cmpflx for cell c reads
CallReads(pair, c) == FaceReads(pair, c) \cup RiemannReads(pair, c)
\* cell c lies on the lowest plane of the block along dir
LowestPlane(c) ==
    \E x \in 1..3 :
       /\ Components(md.dir).back[x] = 1
       /\ c[x] = <<md.lox, md.loy, md.loz>>[x]
\* the offset in qaux of the neighbour of c one unit back along dir
BackOffset(c) ==
    Offset(fm["qaux"], c[1] - Components(md.dir).back[1],
           c[2] - Components(md.dir).back[2], c[3] - Components(md.dir).back[3], QC)

\* C29: for every cell of the launched block and both calls of pc_cmpflx,
\* every offset read or written in ql, qr, flx, q and qaux lies in [0, size)
\* of its field; the read of qaux one unit back along dir stays inside qaux
\* for the cells on the lowest plane of the block along dir.
C29_InBounds ==
    /\ ~oob
    /\ \A w \in wlog : InBounds(w[2], w[3])
    /\ \A r \in rlog : InBounds(r[2], r[3])
    /\ \A call \in DOMAIN res :
          /\ \A e \in CallReads(call[1], call[2]) : InBounds(e[1], e[2])
          /\ LowestPlane(call[2]) => InBounds("qaux", BackOffset(call[2]))

\* both calls made for a cell on the lowest plane along dir, of a block
\* whose qaux starts at the block's own low corner: the read one unit back
\* falls inside qaux, on an element of the component below QC
C29_Witness ==
    /\ ~oob
    /\ <<fm["qaux"].beginx, fm["qaux"].beginy, fm["qaux"].beginz>>
          = <<md.lox, md.loy, md.loz>>
    /\ \E c \in Cells(md) :
          /\ LowestPlane(c)
          /\ <<"xy", c>> \in DOMAIN res /\ <<"xz", c>> \in DOMAIN res
          /\ <<"xz", c>> \in hpc
          /\ InBounds("qaux", BackOffset(c))
          /\ BackOffset(c) < QC * fm["qaux"].nstride

(***************************************************************************)
(* Properties of the addressing.                                           *)
(***************************************************************************)
OffsetOf(t) == Offset(fm["flxy"], t[1], t[2], t[3], t[4])

\* C8: with the origin and strides of its metadata, distinct index tuples
\* of a field have distinct offsets, every offset lies in [0, size), and a
\* load at (i, j, k, n) gives the value last stored at (i, j, k, n).
C8_Addressing ==
    /\ \A t1 \in Tuples(fm["flxy"]) : \A t2 \in Tuples(fm["flxy"]) :
          t1 # t2 => OffsetOf(t1) # OffsetOf(t2)
    /\ \A t \in Tuples(fm["flxy"]) : OffsetOf(t) \in 0..(fm["flxy"].size - 1)
    /\ shadow.got # <<>> => shadow.got[2] = shadow.stored[shadow.got[1]]

\* two components of a field of more than one row and plane hold different
\* values, and the load gave back the first after the second was stored
C8_Witness ==
    /\ fm["flxy"].jstride > 1 /\ fm["flxy"].kstride > fm["flxy"].jstride
    /\ fm["flxy"].nstride > fm["flxy"].kstride /\ fm["flxy"].beginy < 0
    /\ shadow.got # <<>>
    /\ shadow.got[2] = One
    /\ \E t \in Tuples(fm["flxy"]) :
          /\ t[4] # shadow.got[1][4]
          /\ <<t[1], t[2], t[3]>> = <<shadow.got[1][1], shadow.got[1][2], shadow.got[1][3]>>
          /\ shadow.stored[t] = Half

(***************************************************************************)
(* Properties of the cell decomposition.                                   *)
(***************************************************************************)
SpecCellOf(icell) == spec_cell(icell, md.lenx, md.lenxy, md.lox, md.loy, md.loz)
Injective(S) == \A p \in S : \A q \in S : p[2] = q[2] => p[1] = q[1]

\* C10 as stated: for every lenx >= 1 and lenxy >= lenx, a multiple of lenx
\* or not, the cell the kernel computes for icell is (lox + icell mod lenx,
\* loy + (icell / lenx) mod (lenxy / lenx), loz + icell / lenxy), and the
\* map from icell to the cell is injective.
C10_AsStated ==
    /\ \A p \in cells : p[2] = SpecCellOf(p[1])
    /\ Injective(cells)

\* C10 amended: the map from icell to the cell is injective for every
\* lenx >= 1 and lenxy >= lenx, and the cell is (lox + icell mod lenx,
\* loy + (icell / lenx) mod (lenxy / lenx), loz + icell / lenxy) when lenxy
\* is a multiple of lenx.
C10_Decomposition ==
    /\ md.lenxy % md.lenx = 0 => \A p \in cells : p[2] = SpecCellOf(p[1])
    /\ Injective(cells)

\* rows of more than one cell, more than one row and plane; a cell of a
\* later row and plane agrees with the formula, beside two other cells
C10_Witness ==
    /\ md.lenx > 1 /\ md.lenxy > md.lenx /\ md.lenxy % md.lenx = 0
    /\ md.ncells > md.lenxy
    /\ Cardinality(cells) = MaxCells
    /\ \E p \in cells :
          /\ p[1] > md.lenxy + md.lenx
          /\ p[2] = SpecCellOf(p[1])
          /\ p[2][2] > md.loy /\ p[2][3] > md.loz
====
